---- MODULE Spec2Model ----
(***************************************************************************)
(* Model of the conversational query pipeline of al-ai-agent-v2:           *)
(*   - CacheService (app/services/cache_service.py) over the cache_entries *)
(*     table (app/database/models.py, CacheEntry);                         *)
(*   - execute_query_node and the nodes feeding it (app/agent/nodes.py);   *)
(*   - _execute_query_helper of the tool pipeline (app/agent/tools.py);    *)
(*   - DomoService.execute_query (app/services/domo_service.py).           *)
(*                                                                         *)
(* Time is counted in ticks, TicksPerHour to the hour (ttl_config is in    *)
(* hours).  Timestamps are modelled as totally ordered instants.  Python's None is written None    *)
(* where it sits in an integer- or time-valued slot (rows_shown,           *)
(* expires_at); no program integer or timestamp is negative.               *)
(***************************************************************************)
EXTENDS Integers, Sequences, FiniteSets, TLC

None == -1

(***************************************************************************)
(* Bounds of the model.                                                    *)
(***************************************************************************)
MaxTime == 3
MaxOps == 4
TicksPerHour == 2

(***************************************************************************)
(* CacheService.__init__: ttl_config; the constants are hours, the result  *)
(* is in ticks.                                                            *)
(***************************************************************************)
TtlSqlResult == 1
TtlColumnSearch == 6
TtlSqlGeneration == 6
TtlMetadata == 12

ttl_config(cache_type) ==
    CASE cache_type = "sql_result" -> TtlSqlResult * TicksPerHour
      [] cache_type = "column_search" -> TtlColumnSearch * TicksPerHour
      [] cache_type = "sql_generation" -> TtlSqlGeneration * TicksPerHour
      [] cache_type = "metadata" -> TtlMetadata * TicksPerHour
      [] OTHER -> None

(***************************************************************************)
(* CacheService.generate_cache_key.  kwargs is the sequence of             *)
(* <<name, value>> pairs in the order the caller wrote them (a Python dict *)
(* keeps insertion order); names are distinct.  json.dumps(sort_keys=True) *)
(* orders the pairs by name and renders them as text.                      *)
(***************************************************************************)
KeyOrder == <<"a", "b", "dataset_id", "query", "sql_query">>

NameRank(name) == CHOOSE i \in 1..Len(KeyOrder) : KeyOrder[i] = name

RECURSIVE InsertSorted(_, _)
InsertSorted(pair, sorted) ==
    IF sorted = <<>> THEN <<pair>>
    ELSE IF NameRank(pair[1]) <= NameRank(Head(sorted)[1])
         THEN <<pair>> \o sorted
         ELSE <<Head(sorted)>> \o InsertSorted(pair, Tail(sorted))

\* (variant: the pairs are serialised in the order the caller gave them)
UnsortedKeys(kwargs) == kwargs

RECURSIVE SortKeys(_)
SortKeys(kwargs) ==
    IF kwargs = <<>> THEN <<>>
    ELSE InsertSorted(Head(kwargs), SortKeys(Tail(kwargs)))

RECURSIVE JsonItems(_)
JsonItems(pairs) ==
    IF pairs = <<>> THEN ""
    ELSE "\"" \o Head(pairs)[1] \o "\": \"" \o Head(pairs)[2] \o "\""
         \o (IF Tail(pairs) = <<>> THEN "" ELSE ", " \o JsonItems(Tail(pairs)))

JsonDumpsSorted(kwargs) == "{" \o JsonItems(SortKeys(kwargs)) \o "}"

HashInput(cache_type, kwargs) == cache_type \o ":" \o JsonDumpsSorted(kwargs)

\* sha256(...).hexdigest()[:32]: a 128-bit digest, taken to be free of
\* collisions on the inputs of the model.
Sha256Hex32(text) == [sha256_32 |-> text]

generate_cache_key(cache_type, kwargs) == Sha256Hex32(HashInput(cache_type, kwargs))

(***************************************************************************)
(* State.                                                                  *)
(***************************************************************************)
VARIABLES
    cache_entries,  \* rows of the cache_entries table (CacheEntry)
    now,            \* datetime.now(), in ticks
    ops,            \* number of operations performed so far (bounds the runs)
    api_got,        \* the last CacheService.get: its key, result and the row before/after
    api_written,    \* per key, the value and expires_at of the last set not invalidated since
    key_calls,      \* two generate_cache_key calls and their results
    set_pc,         \* per concurrent CacheService.set call: "start", "looked", "done"
    set_seen,       \* per call: the row its lookup returned (or NoEntry)
    set_expires,    \* per call: the expires_at it computed on entry
    set_value,      \* per call: the value it writes
    set_finished,   \* the calls in the order they committed or rolled back
    pc,                  \* where the turn stands: "idle", "search", "sql", "exec"
    previous_dataset_id, \* state["previous_dataset_id"]
    previous_sql,        \* state["previous_sql"]
    previous_metadata,   \* state["previous_metadata"]: the result buffer
    query_intent,        \* state["query_intent"]
    use_cache,           \* state["use_cache"]
    selected_dataset_id, \* state["selected_dataset_id"]
    sql_query,           \* state["sql_query"]
    indexed,             \* the datasets that have columns in the column index
    domo_calls,          \* number of DomoService.execute_query calls so far
    last_exec,           \* what the last execution step did and returned
    pag_run,             \* the current run of consecutive replay-from-buffer turns
    fetched_ok,          \* the cached executions that fetched from the backend with success
    messages,            \* the Message rows stored for one conversation, in order
    req_pc,              \* per concurrent request on it: "new", "streaming", "done", "failed"
    req_endpoint,        \* per request: "query" or "stream"
    req_history,         \* per request: the history it read on entry
    req_yields,          \* per streaming request: events yielded so far
    sanitize_calls,      \* a _sanitize_sql_column_names call and its results
    route_calls,         \* a SemanticRouter.route call and its result
    select_calls,        \* a _select_columns_with_llm call and its result
    intent_calls,        \* an analyze_query_intent_node call and its result
    unit_calls           \* a call of another function checked on its own, and its result

apiVars == <<api_got, api_written>>
raceVars == <<set_pc, set_seen, set_expires, set_value, set_finished>>
convVars == <<previous_dataset_id, previous_sql, previous_metadata>>
turnVars == <<query_intent, use_cache, selected_dataset_id, sql_query>>
obsVars == <<domo_calls, last_exec, pag_run, fetched_ok>>
pipeVars == <<pc, convVars, turnVars, indexed, obsVars>>
threadVars == <<messages, req_pc, req_endpoint, req_history, req_yields>>
unitVars == <<threadVars, sanitize_calls, route_calls, select_calls, intent_calls,
              unit_calls>>
vars == <<cache_entries, now, ops, api_got, api_written, key_calls,
          set_pc, set_seen, set_expires, set_value, set_finished,
          pc, previous_dataset_id, previous_sql, previous_metadata,
          query_intent, use_cache, selected_dataset_id, sql_query,
          indexed, domo_calls, last_exec, pag_run, fetched_ok,
          messages, req_pc, req_endpoint, req_history, req_yields,
          sanitize_calls, route_calls, select_calls, intent_calls, unit_calls>>

(***************************************************************************)
(* The cache_entries table.  cache_key is unique.                          *)
(***************************************************************************)
NoEntry == [absent |-> TRUE]

Miss == [hit |-> FALSE]
Hit(v) == [hit |-> TRUE, value |-> v]

\* db.query(CacheEntry).filter(cache_key == key, cache_type == type).first()
QueryByKeyAndType(entries, key, cache_type) ==
    LET m == {e \in entries : e.cache_key = key /\ e.cache_type = cache_type}
    IN IF m = {} THEN NoEntry ELSE CHOOSE e \in m : TRUE

\* db.query(CacheEntry).filter(cache_key == key).first()
QueryByKey(entries, key) ==
    LET m == {e \in entries : e.cache_key = key}
    IN IF m = {} THEN NoEntry ELSE CHOOSE e \in m : TRUE

\* entry.expires_at and entry.expires_at < datetime.now()
IsExpired(entry, t) == entry.expires_at # None /\ entry.expires_at < t

\* CacheService.get: the value returned
GetResult(entries, cache_type, kwargs, t) ==
    LET entry == QueryByKeyAndType(entries, generate_cache_key(cache_type, kwargs), cache_type)
    IN IF entry = NoEntry THEN Miss
       ELSE IF IsExpired(entry, t) THEN Miss
       ELSE Hit(entry.value)

\* (variant: a read pushes expires_at forward, a sliding expiration)
TouchSliding(entry, t) ==
    [entry EXCEPT !.hit_count = @ + 1, !.last_accessed = t,
                  !.expires_at = IF @ = None THEN None ELSE t + ttl_config(entry.cache_type)]

\* CacheService.get, lines 69-72: the row after a hit
Touch(entry, t) == [entry EXCEPT !.hit_count = @ + 1, !.last_accessed = t]

\* CacheService.get: the table after the call
GetTable(entries, cache_type, kwargs, t) ==
    LET entry == QueryByKeyAndType(entries, generate_cache_key(cache_type, kwargs), cache_type)
    IN IF entry = NoEntry THEN entries
       ELSE IF IsExpired(entry, t) THEN entries \ {entry}
       ELSE (entries \ {entry}) \cup {Touch(entry, t)}

\* CacheService.set, lines 92-93
ExpiresAt(cache_type, t) ==
    IF ttl_config(cache_type) # None THEN t + ttl_config(cache_type) ELSE None

\* (variant: an update keeps the expires_at of the first write)
UpdatedKeepingExpiry(entry, value, cache_type, t) ==
    [entry EXCEPT !.value = value, !.last_accessed = t]

\* CacheService.set, lines 102-105: the row after an update
Updated(entry, value, cache_type, t) ==
    [entry EXCEPT !.value = value, !.expires_at = ExpiresAt(cache_type, t),
                  !.last_accessed = t]

\* CacheService.set, lines 107-114: the row inserted (hit_count has default 0)
Inserted(key, cache_type, value, t) ==
    [cache_key |-> key, cache_type |-> cache_type, value |-> value,
     created_at |-> t, expires_at |-> ExpiresAt(cache_type, t),
     last_accessed |-> t, hit_count |-> 0]

\* CacheService.set: the table after the call (one session, no concurrent writer)
SetTable(entries, cache_type, value, kwargs, t) ==
    LET key == generate_cache_key(cache_type, kwargs)
        entry == QueryByKey(entries, key)
    IN IF entry # NoEntry
       THEN (entries \ {entry}) \cup {Updated(entry, value, cache_type, t)}
       ELSE entries \cup {Inserted(key, cache_type, value, t)}

\* CacheService.invalidate
InvalidateTable(entries, cache_type, kwargs) ==
    LET entry == QueryByKey(entries, generate_cache_key(cache_type, kwargs))
    IN IF entry # NoEntry THEN entries \ {entry} ELSE entries

\* CacheService.clear_expired: delete where expires_at < now (NULL never matches)
ClearExpiredTable(entries, t) ==
    {e \in entries : ~(e.expires_at # None /\ e.expires_at < t)}

(***************************************************************************)
(* Direct use of CacheService: set, get, invalidate, clear_expired, and    *)
(* the passing of time.                                                    *)
(***************************************************************************)
ApiValues == {"v1", "v2"}

\* <<cache_type, kwargs>> of the calls made; the first two name the same
\* parameters in different orders; "adhoc" has no entry in ttl_config.
ApiCalls ==
    { <<"sql_result", << <<"sql_query", "s1">>, <<"dataset_id", "d1">> >> >>,
      <<"sql_result", << <<"dataset_id", "d1">>, <<"sql_query", "s1">> >> >>,
      <<"adhoc", << <<"a", "1">> >> >> }

NoGet == [called |-> FALSE]

ApiSet(call, v) ==
    /\ ops < MaxOps
    /\ cache_entries' = SetTable(cache_entries, call[1], v, call[2], now)
    /\ LET key == generate_cache_key(call[1], call[2])
       IN api_written' = {w \in api_written : w.cache_key # key}
              \cup {[cache_key |-> key, value |-> v,
                     expires_at |-> ExpiresAt(call[1], now)]}
    /\ ops' = ops + 1
    /\ UNCHANGED <<now, api_got, key_calls, raceVars, pipeVars, unitVars>>

ApiGet(call) ==
    /\ ops < MaxOps
    /\ cache_entries' = GetTable(cache_entries, call[1], call[2], now)
    /\ LET key == generate_cache_key(call[1], call[2])
       IN api_got' = [called |-> TRUE, cache_key |-> key, at |-> now,
                      result |-> GetResult(cache_entries, call[1], call[2], now),
                      written |-> {w \in api_written : w.cache_key = key},
                      before |-> QueryByKey(cache_entries, key),
                      after |-> QueryByKey(cache_entries', key)]
    /\ ops' = ops + 1
    /\ UNCHANGED <<now, api_written, key_calls, raceVars, pipeVars, unitVars>>

ApiInvalidate(call) ==
    /\ ops < MaxOps
    /\ cache_entries' = InvalidateTable(cache_entries, call[1], call[2])
    /\ api_written' = {w \in api_written : w.cache_key # generate_cache_key(call[1], call[2])}
    /\ ops' = ops + 1
    /\ UNCHANGED <<now, api_got, key_calls, raceVars, pipeVars, unitVars>>

ApiClearExpired ==
    /\ ops < MaxOps
    /\ cache_entries' = ClearExpiredTable(cache_entries, now)
    /\ ops' = ops + 1
    /\ UNCHANGED <<now, apiVars, key_calls, raceVars, pipeVars, unitVars>>

Tick ==
    /\ now < MaxTime
    /\ now' = now + 1
    /\ UNCHANGED <<cache_entries, ops, apiVars, key_calls, raceVars, pipeVars, unitVars>>

NoKeyCalls == [done |-> FALSE]

NoneStr == "None"
Datasets == {"d1", "d2"}

\* state.get("previous_metadata") or {} with the defaults of its .get calls
NoMetadata ==
    [present |-> FALSE, dataset_id |-> NoneStr, all_rows |-> <<>>, rows_shown |-> 0]

NoIntent == [is_pagination_request |-> FALSE]

NoExec ==
    [pipeline |-> "none", path |-> "none", precond |-> FALSE, use_cache |-> FALSE,
     dataset_id |-> NoneStr, sql |-> NoneStr, at |-> 0,
     backend_called |-> FALSE, backend_ok |-> FALSE, cache_written |-> FALSE,
     llm_failed |-> FALSE, completed |-> FALSE, rows |-> <<>>,
     before_rows |-> <<>>, before_shown |-> 0,
     after_rows |-> <<>>, after_shown |-> 0, prior |-> {}]

NoRun == [turns |-> 0, start |-> 0, pages |-> <<>>, monotone |-> TRUE]

PipelineIdle ==
    /\ pc = "idle"
    /\ previous_dataset_id = NoneStr
    /\ previous_sql = NoneStr
    /\ previous_metadata = NoMetadata
    /\ query_intent = NoIntent
    /\ use_cache = TRUE
    /\ selected_dataset_id = ""
    /\ sql_query = ""
    /\ indexed = Datasets
    /\ domo_calls = 0
    /\ last_exec = NoExec
    /\ pag_run = NoRun
    /\ fetched_ok = {}

NoCall == [done |-> FALSE]

ThreadIdle ==
    /\ messages = <<>>
    /\ req_pc = <<>> /\ req_endpoint = <<>> /\ req_history = <<>> /\ req_yields = <<>>

UnitsIdle ==
    /\ ThreadIdle
    /\ sanitize_calls = NoCall
    /\ route_calls = NoCall
    /\ select_calls = NoCall
    /\ intent_calls = NoCall
    /\ unit_calls = NoCall

\* the parts of the state a specification does not use stay as they start
CacheEmpty == cache_entries = {} /\ now = 0 /\ ops = 0
ApiIdle == api_got = NoGet /\ api_written = {}
KeyIdle == key_calls = NoKeyCalls
RaceIdle ==
    /\ set_pc = <<>> /\ set_seen = <<>> /\ set_expires = <<>>
    /\ set_value = <<>> /\ set_finished = <<>>

InitCache ==
    /\ CacheEmpty
    /\ ApiIdle
    /\ KeyIdle
    /\ RaceIdle
    /\ PipelineIdle
    /\ UnitsIdle

NextCache ==
    \/ \E call \in ApiCalls, v \in ApiValues : ApiSet(call, v)
    \/ \E call \in ApiCalls : ApiGet(call)
    \/ \E call \in ApiCalls : ApiInvalidate(call)
    \/ ApiClearExpired
    \/ Tick

SpecCache == InitCache /\ [][NextCache]_vars

(***************************************************************************)
(* generate_cache_key as a pure function: two calls, on inputs drawn from  *)
(* the categories and from the keyword-argument lists over two names.      *)
(***************************************************************************)
KeyCategories == {"sql_result", "sql_generation"}
KwNames == {"a", "b"}
KwValues == {"1", "2"}

KwLists ==
    {<<>>}
    \cup {<< <<n, v>> >> : n \in KwNames, v \in KwValues}
    \cup {<< <<p[1], p[3]>>, <<p[2], p[4]>> >> :
             p \in {q \in KwNames \X KwNames \X KwValues \X KwValues : q[1] # q[2]}}

PairSet(kwargs) == {kwargs[i] : i \in 1..Len(kwargs)}

InitKey ==
    /\ CacheEmpty
    /\ ApiIdle
    /\ RaceIdle
    /\ PipelineIdle
    /\ UnitsIdle
    /\ key_calls \in [done : {FALSE}, cat_a : KeyCategories, cat_b : KeyCategories,
                       kw_a : KwLists, kw_b : KwLists]

CallGenerateCacheKey ==
    /\ ~key_calls.done
    /\ key_calls' = [done |-> TRUE,
                     cat_a |-> key_calls.cat_a, cat_b |-> key_calls.cat_b,
                     kw_a |-> key_calls.kw_a, kw_b |-> key_calls.kw_b,
                     in_a |-> HashInput(key_calls.cat_a, key_calls.kw_a),
                     in_b |-> HashInput(key_calls.cat_b, key_calls.kw_b),
                     key_a |-> generate_cache_key(key_calls.cat_a, key_calls.kw_a),
                     key_b |-> generate_cache_key(key_calls.cat_b, key_calls.kw_b)]
    /\ UNCHANGED <<cache_entries, now, ops, apiVars, raceVars, pipeVars, unitVars>>

NextKey == CallGenerateCacheKey

SpecKey == InitKey /\ [][NextKey]_vars

(***************************************************************************)
(* Two CacheService.set calls for one key running concurrently, each in    *)
(* its own session.  A call is two steps: the lookup (lines 91-100) and    *)
(* the write with its commit (lines 102-117); the commit is where the      *)
(* database applies the INSERT or UPDATE and checks unique(cache_key).     *)
(***************************************************************************)
SetWorkers == {1, 2}

RaceCall == <<"sql_result", << <<"sql_query", "s1">>, <<"dataset_id", "d1">> >> >>
RaceKey == generate_cache_key(RaceCall[1], RaceCall[2])

InitRace ==
    /\ cache_entries \in {{}, {Inserted(RaceKey, RaceCall[1], "v0", 0)}}
    /\ now = 0
    /\ ops = 0
    /\ ApiIdle
    /\ KeyIdle
    /\ set_pc = [w \in SetWorkers |-> "start"]
    /\ set_seen = [w \in SetWorkers |-> NoEntry]
    /\ set_expires = [w \in SetWorkers |-> None]
    /\ set_value \in [SetWorkers -> ApiValues]
    /\ set_finished = <<>>
    /\ PipelineIdle
    /\ UnitsIdle

\* lines 91-100: the key, expires_at and the SELECT by cache_key
SetLookup(w) ==
    /\ set_pc[w] = "start"
    /\ set_seen' = [set_seen EXCEPT ![w] = QueryByKey(cache_entries, RaceKey)]
    /\ set_expires' = [set_expires EXCEPT ![w] = ExpiresAt(RaceCall[1], now)]
    /\ set_pc' = [set_pc EXCEPT ![w] = "looked"]
    /\ UNCHANGED <<cache_entries, now, ops, apiVars, key_calls, set_value, set_finished, pipeVars, unitVars>>

\* lines 102-123: UPDATE of the row found, or INSERT of a new row, then commit;
\* an INSERT of a key that is now taken violates unique(cache_key), an UPDATE
\* of a row that is gone matches nothing: the except branch rolls back.
SetCommit(w) ==
    /\ set_pc[w] = "looked"
    /\ LET cur == QueryByKey(cache_entries, RaceKey)
       IN IF set_seen[w] # NoEntry
          THEN IF cur = NoEntry
               THEN UNCHANGED cache_entries
               ELSE cache_entries' = (cache_entries \ {cur}) \cup
                        {[Updated(cur, set_value[w], RaceCall[1], now)
                             EXCEPT !.expires_at = set_expires[w]]}
          ELSE IF cur # NoEntry
               THEN UNCHANGED cache_entries
               ELSE cache_entries' = cache_entries \cup
                        {[Inserted(RaceKey, RaceCall[1], set_value[w], now)
                             EXCEPT !.expires_at = set_expires[w]]}
    /\ set_pc' = [set_pc EXCEPT ![w] = "done"]
    /\ set_finished' = Append(set_finished, w)
    /\ UNCHANGED <<now, ops, apiVars, key_calls, set_seen, set_expires, set_value, pipeVars, unitVars>>

NextRace ==
    \/ \E w \in SetWorkers : SetLookup(w)
    \/ \E w \in SetWorkers : SetCommit(w)
    \/ Tick

SpecRace == InitRace /\ [][NextRace]_vars

(***************************************************************************)
(* The query pipeline.  A turn of the node pipeline runs search_columns,   *)
(* generate_sql and execute_query over the conversation state; the tool    *)
(* pipeline executes a query through _execute_query_helper.  Both share    *)
(* the cache table and the execution backend.                              *)
(***************************************************************************)
MaxTurns == 3
ManyRows == 12
FewRows == 2
PageSize == 10

SqlTexts == {"s1", "s2"}

\* the rows the backend holds for a query: more than a page, a few, or none
RowCount(d, s) ==
    IF d = "d1" THEN (IF s = "s1" THEN ManyRows ELSE 0) ELSE FewRows

BackendRows(d, s) == [i \in 1..RowCount(d, s) |-> <<d, s, i>>]

\* DomoService.execute_query: the rows, or the failure dict of the except branch
DomoExecuteQuery(d, s, ok) ==
    IF ok
    THEN [success |-> TRUE, rows |-> BackendRows(d, s),
          row_count |-> RowCount(d, s), dataset_id |-> d]
    ELSE [success |-> FALSE, error |-> "error", rows |-> <<>>,
          row_count |-> 0, dataset_id |-> d]

\* the caller builds the state of a turn: the previous dataset is the one of
\* the stored metadata, and the user's message is a pagination request or not
BeginTurn(is_pagination, uc) ==
    /\ pc = "idle"
    /\ ops < MaxTurns
    /\ ops' = ops + 1
    /\ previous_dataset_id' =
           IF previous_metadata.present THEN previous_metadata.dataset_id ELSE NoneStr
    /\ query_intent' = [is_pagination_request |-> is_pagination]
    /\ use_cache' = uc
    /\ selected_dataset_id' = ""
    /\ sql_query' = ""
    /\ pc' = "search"
    /\ UNCHANGED <<cache_entries, now, apiVars, key_calls, raceVars,
                   previous_sql, previous_metadata, indexed, obsVars, unitVars>>

\* _rank: on a pagination request the previous dataset gets +1000 and wins
\* whenever it is among the hits; otherwise any dataset hit can rank first
BestDatasets(hits) ==
    IF query_intent.is_pagination_request /\ previous_dataset_id \in hits
    THEN {previous_dataset_id}
    ELSE hits

\* the datasets whose columns the retrieval returns: on a pagination request
\* with previous metadata, the columns of the previous dataset when the index
\* has any, else (and on every other request) the hits of a similarity search
ReusesPreviousDataset ==
    query_intent.is_pagination_request /\ previous_metadata.present

SearchHits ==
    IF ReusesPreviousDataset /\ previous_dataset_id \in indexed
    THEN {{previous_dataset_id}}
    ELSE SUBSET indexed

\* search_columns_node: selects the dataset; no hit leaves none selected
SearchColumnsNode ==
    /\ pc = "search"
    /\ \E hits \in SearchHits :
           IF hits = {}
           THEN selected_dataset_id' = ""
           ELSE selected_dataset_id' \in BestDatasets(hits)
    /\ pc' = "sql"
    /\ UNCHANGED <<cache_entries, now, ops, apiVars, key_calls, raceVars,
                   convVars, query_intent, use_cache, sql_query, indexed, obsVars, unitVars>>

\* generate_sql_node: the SQL text the model writes, or none (no dataset
\* selected, or no SQL in the model's answer)
GenerateSqlNode ==
    /\ pc = "sql"
    /\ IF selected_dataset_id = ""
       THEN sql_query' = ""
       ELSE sql_query' \in SqlTexts \cup {""}
    /\ pc' = "exec"
    /\ UNCHANGED <<cache_entries, now, ops, apiVars, key_calls, raceVars,
                   convVars, query_intent, use_cache, selected_dataset_id,
                   indexed, obsVars, unitVars>>

NodeKwargs(sql, d) == << <<"sql_query", sql>>, <<"dataset_id", d>> >>
ToolKwargs(sql, d) == << <<"query", sql>>, <<"dataset_id", d>> >>

\* (variant: every pagination request is served from the buffer)
ReplayOnEveryPagination == query_intent.is_pagination_request

\* line 1356: replay from the buffer
IsReplay ==
    /\ query_intent.is_pagination_request
    /\ previous_metadata.all_rows # <<>>
    /\ previous_dataset_id = selected_dataset_id

\* line 1361
PageEnd(start_idx, rows) ==
    IF start_idx + PageSize < Len(rows) THEN start_idx + PageSize ELSE Len(rows)

\* (variant: results are never written to the cache)
NeverCache(result, uc) == FALSE

\* line 1394
NodeShouldCache(result, uc) == result.success /\ uc

\* line 641: data is never None here, the failure dict carries rows = []
ToolShouldCache(data, uc) == uc

\* the except branch: nothing of the state is returned
Raised(path, entries, called, ok, llm_failed) ==
    [error |-> TRUE, path |-> path, entries |-> entries,
     backend_called |-> called, backend_ok |-> ok, llm_failed |-> llm_failed,
     rows |-> <<>>, all_fetched_rows |-> <<>>, new_rows_shown |-> None]

\* lines 1357-1376, then the final response; previous_rows_shown + 10 with
\* rows_shown None raises TypeError
ReplayOutcome(llm_ok) ==
    LET previous_rows == previous_metadata.all_rows
        start_idx == previous_metadata.rows_shown
        end_idx == PageEnd(start_idx, previous_rows)
    IN IF start_idx = None
       THEN Raised("replay", cache_entries, FALSE, FALSE, FALSE)
       ELSE IF ~llm_ok
       THEN Raised("replay", cache_entries, FALSE, FALSE, TRUE)
       ELSE [error |-> FALSE, path |-> "replay", entries |-> cache_entries,
             backend_called |-> FALSE, backend_ok |-> FALSE, llm_failed |-> FALSE,
             rows |-> SubSeq(previous_rows, start_idx + 1, end_idx),
             all_fetched_rows |-> <<>>, new_rows_shown |-> end_idx]

\* lines 1378-1409, then the final response
ExecuteOutcome(ok, llm_ok) ==
    LET kwargs == NodeKwargs(sql_query, selected_dataset_id)
        cached == IF use_cache
                  THEN GetResult(cache_entries, "sql_result", kwargs, now)
                  ELSE Miss
        read == IF use_cache
                THEN GetTable(cache_entries, "sql_result", kwargs, now)
                ELSE cache_entries
        fetched == DomoExecuteQuery(selected_dataset_id, sql_query, ok)
        result == IF cached.hit THEN cached.value ELSE fetched
        entries == IF ~cached.hit /\ NodeShouldCache(fetched, use_cache)
                   THEN SetTable(read, "sql_result", fetched, kwargs, now)
                   ELSE read
    IN IF selected_dataset_id = "" \/ sql_query = ""
       THEN Raised("execute", cache_entries, FALSE, FALSE, FALSE)
       ELSE IF ~llm_ok
       THEN [Raised("execute", entries, ~cached.hit, ~cached.hit /\ ok, TRUE)
                EXCEPT !.rows = result.rows]
       ELSE [error |-> FALSE, path |-> "execute", entries |-> entries,
             backend_called |-> ~cached.hit, backend_ok |-> ~cached.hit /\ ok,
             llm_failed |-> FALSE, rows |-> result.rows,
             all_fetched_rows |-> result.rows, new_rows_shown |-> None]

\* lines 1444-1457: the buffer stored for the next turn
StoredMetadata(out) ==
    IF query_intent.is_pagination_request /\ previous_metadata.all_rows # <<>>
    THEN [present |-> TRUE, dataset_id |-> selected_dataset_id,
          all_rows |-> previous_metadata.all_rows, rows_shown |-> out.new_rows_shown]
    ELSE [present |-> TRUE, dataset_id |-> selected_dataset_id,
          all_rows |-> out.all_fetched_rows, rows_shown |-> Len(out.rows)]

SameQuery(pipeline, d, s) ==
    {f \in fetched_ok : f.pipeline = pipeline /\ f.dataset_id = d /\ f.sql = s}

Fetched(pipeline, d, s, rows) ==
    [pipeline |-> pipeline, dataset_id |-> d, sql |-> s, at |-> now, rows |-> rows]

\* a run of consecutive replay turns, with the pages they returned
RunAfter(out) ==
    IF out.path # "replay"
    THEN NoRun
    ELSE LET run == IF pag_run.turns = 0
                    THEN [NoRun EXCEPT !.start = previous_metadata.rows_shown]
                    ELSE pag_run
         IN [run EXCEPT !.turns = @ + 1,
                        !.pages = @ \o out.rows,
                        !.monotone = @ /\ (out.error
                                           \/ previous_metadata.rows_shown <= out.new_rows_shown)]

\* execute_query_node; the state of the turn ends with it, the caller keeps
\* previous_sql and previous_metadata for the next turn
ExecuteQueryNode(ok, llm_ok) ==
    /\ pc = "exec"
    /\ LET out == IF IsReplay THEN ReplayOutcome(llm_ok) ELSE ExecuteOutcome(ok, llm_ok)
           stored == IF out.error THEN previous_metadata ELSE StoredMetadata(out)
           cached_fetch == out.backend_ok /\ use_cache
       IN /\ cache_entries' = out.entries
          /\ previous_metadata' = stored
          /\ previous_sql' = IF out.error THEN previous_sql ELSE sql_query
          /\ domo_calls' = IF out.backend_called THEN domo_calls + 1 ELSE domo_calls
          /\ fetched_ok' = IF cached_fetch
                           THEN fetched_ok \cup
                                {Fetched("node", selected_dataset_id, sql_query, out.rows)}
                           ELSE fetched_ok
          /\ pag_run' = RunAfter(out)
          /\ last_exec' =
                 [pipeline |-> "node", path |-> out.path, precond |-> IsReplay,
                  use_cache |-> use_cache,
                  dataset_id |-> selected_dataset_id,
                  sql |-> sql_query, at |-> now,
                  backend_called |-> out.backend_called, backend_ok |-> out.backend_ok,
                  cache_written |-> out.backend_called /\
                      QueryByKey(out.entries, generate_cache_key("sql_result",
                          NodeKwargs(sql_query, selected_dataset_id))) # NoEntry,
                  llm_failed |-> out.llm_failed, completed |-> ~out.error,
                  rows |-> out.rows,
                  before_rows |-> previous_metadata.all_rows,
                  before_shown |-> previous_metadata.rows_shown,
                  after_rows |-> stored.all_rows, after_shown |-> stored.rows_shown,
                  prior |-> SameQuery("node", selected_dataset_id, sql_query)]
    /\ pc' = "idle"
    /\ query_intent' = NoIntent
    /\ use_cache' = TRUE
    /\ selected_dataset_id' = ""
    /\ sql_query' = ""
    /\ UNCHANGED <<now, ops, apiVars, key_calls, raceVars, previous_dataset_id, indexed, unitVars>>

\* _execute_query_helper
ExecuteQueryHelper(d, s, uc, ok) ==
    /\ pc = "idle"
    /\ ops < MaxTurns
    /\ ops' = ops + 1
    /\ LET kwargs == ToolKwargs(s, d)
           cached == IF uc THEN GetResult(cache_entries, "sql_result", kwargs, now)
                     ELSE Miss
           read == IF uc THEN GetTable(cache_entries, "sql_result", kwargs, now)
                   ELSE cache_entries
           result == DomoExecuteQuery(d, s, ok)
           data == IF cached.hit THEN cached.value.data ELSE result.rows
           rows_returned == IF cached.hit THEN cached.value.rows_returned ELSE Len(data)
           entries == IF ~cached.hit /\ ToolShouldCache(data, uc)
                      THEN SetTable(read, "sql_result",
                                    [data |-> data, rows_returned |-> rows_returned],
                                    kwargs, now)
                      ELSE read
       IN /\ cache_entries' = entries
          /\ domo_calls' = IF cached.hit THEN domo_calls ELSE domo_calls + 1
          /\ fetched_ok' = IF ~cached.hit /\ ok /\ uc
                           THEN fetched_ok \cup {Fetched("tool", d, s, data)}
                           ELSE fetched_ok
          /\ last_exec' =
                 [NoExec EXCEPT !.pipeline = "tool", !.path = "execute",
                                !.use_cache = uc, !.dataset_id = d, !.sql = s,
                                !.at = now, !.backend_called = ~cached.hit,
                                !.backend_ok = ~cached.hit /\ ok,
                                !.cache_written = ~cached.hit /\
                                    QueryByKey(entries,
                                        generate_cache_key("sql_result", kwargs)) # NoEntry,
                                !.completed = TRUE, !.rows = data,
                                !.prior = SameQuery("tool", d, s)]
    /\ UNCHANGED <<now, apiVars, key_calls, raceVars, pc, convVars, turnVars,
                   indexed, pag_run, unitVars>>

\* datasets are added to and removed from the column index between turns
Reindex(ds) ==
    /\ pc = "idle"
    /\ ds # indexed
    /\ indexed' = ds
    /\ UNCHANGED <<cache_entries, now, ops, apiVars, key_calls, raceVars,
                   pc, convVars, turnVars, obsVars, unitVars>>

Init ==
    /\ CacheEmpty
    /\ ApiIdle
    /\ KeyIdle
    /\ RaceIdle
    /\ PipelineIdle
    /\ UnitsIdle

\* turns of one conversation through the node pipeline, within one clock tick,
\* over a column index that changes between turns
Next ==
    \/ \E is_pagination \in BOOLEAN, uc \in BOOLEAN : BeginTurn(is_pagination, uc)
    \/ SearchColumnsNode
    \/ GenerateSqlNode
    \/ \E ok \in BOOLEAN, llm_ok \in BOOLEAN : ExecuteQueryNode(ok, llm_ok)
    \/ \E ds \in SUBSET Datasets : Reindex(ds)

Spec == Init /\ [][Next]_vars

(***************************************************************************)
(* Executions over time: a few executions through one of the two           *)
(* pipelines while the clock advances.  A deployment wires one pipeline,   *)
(* and the two name the SQL parameter of the cache key differently         *)
(* (sql_query= in the node, query= in the tool), so neither reads the      *)
(* entries of the other.                                                   *)
(***************************************************************************)
MaxExecs == 2

NextExec ==
    \/ /\ ops < MaxExecs
       /\ last_exec.pipeline # "tool"
       /\ \E is_pagination \in BOOLEAN, uc \in BOOLEAN : BeginTurn(is_pagination, uc)
    \/ SearchColumnsNode
    \/ GenerateSqlNode
    \/ \E ok \in BOOLEAN, llm_ok \in BOOLEAN : ExecuteQueryNode(ok, llm_ok)
    \/ /\ ops < MaxExecs
       /\ last_exec.pipeline # "node"
       /\ \E d \in Datasets, s \in SqlTexts, uc \in BOOLEAN, ok \in BOOLEAN :
              ExecuteQueryHelper(d, s, uc, ok)
    \/ (pc = "idle" /\ Tick)

SpecExec == Init /\ [][NextExec]_vars

(***************************************************************************)
(* Concurrent requests on one conversation.  Both endpoints run on the     *)
(* event loop of one server process (main.py): a coroutine keeps the loop  *)
(* until it awaits, yields or returns.  query_data has no await in its     *)
(* body; query_stream returns a StreamingResponse whose event_generator    *)
(* yields an event and awaits asyncio.sleep(0) after each agent step, and  *)
(* stores the two messages after the last one.                             *)
(***************************************************************************)
MaxYields == 2
MaxPriorTurns == 1

Requests == {1, 2}
Endpoints == {"query", "stream"}

\* what add_message stored of a turn before an exception ended it: both
\* messages, the user message alone, or nothing (the agent raised)
StoreOutcomes == {"both", "user_only", "none"}

UserMessage(turn) == [turn |-> turn, role |-> "user"]
AssistantMessage(turn) == [turn |-> turn, role |-> "assistant"]

\* the two add_message calls at the end of a turn
StoredBy(turn, outcome) ==
    CASE outcome = "both" -> <<UserMessage(turn), AssistantMessage(turn)>>
      [] outcome = "user_only" -> <<UserMessage(turn)>>
      [] OTHER -> <<>>

\* the history of a conversation with k earlier turns, numbered 0, -1, ...
RECURSIVE PriorMessages(_)
PriorMessages(k) ==
    IF k = 0 THEN <<>> ELSE PriorMessages(k - 1) \o StoredBy(1 - k, "both")

InitThread ==
    /\ CacheEmpty
    /\ ApiIdle
    /\ KeyIdle
    /\ RaceIdle
    /\ PipelineIdle
    /\ sanitize_calls = NoCall
    /\ route_calls = NoCall
    /\ select_calls = NoCall
    /\ intent_calls = NoCall
    /\ unit_calls = NoCall
    /\ \E k \in 0..MaxPriorTurns : messages = PriorMessages(k)
    /\ req_pc = [r \in Requests |-> "new"]
    /\ req_endpoint \in [Requests -> Endpoints]
    /\ req_history = [r \in Requests |-> <<>>]
    /\ req_yields = [r \in Requests |-> 0]

\* POST /query: history read, agent run and the two messages stored without
\* giving up the event loop
QueryData(r, outcome) ==
    /\ req_pc[r] = "new"
    /\ req_endpoint[r] = "query"
    /\ req_history' = [req_history EXCEPT ![r] = messages]
    /\ messages' = messages \o StoredBy(r, outcome)
    /\ req_pc' = [req_pc EXCEPT ![r] = IF outcome = "both" THEN "done" ELSE "failed"]
    /\ UNCHANGED <<cache_entries, now, ops, apiVars, key_calls, raceVars, pipeVars,
                   req_endpoint, req_yields,
                   sanitize_calls, route_calls, select_calls, intent_calls, unit_calls>>

\* POST /query/stream: the handler reads the history and returns the response
QueryStream(r) ==
    /\ req_pc[r] = "new"
    /\ req_endpoint[r] = "stream"
    /\ req_history' = [req_history EXCEPT ![r] = messages]
    /\ req_pc' = [req_pc EXCEPT ![r] = "streaming"]
    /\ UNCHANGED <<cache_entries, now, ops, apiVars, key_calls, raceVars, pipeVars,
                   messages, req_endpoint, req_yields,
                   sanitize_calls, route_calls, select_calls, intent_calls, unit_calls>>

\* event_generator up to a yield: an agent step whose event is sent
StreamYield(r) ==
    /\ req_pc[r] = "streaming"
    /\ req_yields[r] < MaxYields
    /\ req_yields' = [req_yields EXCEPT ![r] = @ + 1]
    /\ UNCHANGED <<cache_entries, now, ops, apiVars, key_calls, raceVars, pipeVars,
                   messages, req_pc, req_endpoint, req_history,
                   sanitize_calls, route_calls, select_calls, intent_calls, unit_calls>>

\* event_generator from its last yield to the end: the messages are stored
StreamFinish(r, outcome) ==
    /\ req_pc[r] = "streaming"
    /\ messages' = messages \o StoredBy(r, outcome)
    /\ req_pc' = [req_pc EXCEPT ![r] = IF outcome = "both" THEN "done" ELSE "failed"]
    /\ UNCHANGED <<cache_entries, now, ops, apiVars, key_calls, raceVars, pipeVars,
                   req_endpoint, req_history, req_yields,
                   sanitize_calls, route_calls, select_calls, intent_calls, unit_calls>>

NextThread ==
    \/ \E r \in Requests, outcome \in StoreOutcomes : QueryData(r, outcome)
    \/ \E r \in Requests : QueryStream(r)
    \/ \E r \in Requests : StreamYield(r)
    \/ \E r \in Requests, outcome \in StoreOutcomes : StreamFinish(r, outcome)

SpecThread == InitThread /\ [][NextThread]_vars

(***************************************************************************)
(* _sanitize_sql_column_names as a pure function.  A text is a sequence of *)
(* characters; the two re.sub calls per name are scans from left to right  *)
(* over non-overlapping matches, as re.sub makes them.                     *)
(***************************************************************************)
MaxPieces == 3

DQ == "\""
\* the backtick character
BT == "backtick"
WordChars == {"a", "b"}
NoTable == <<"None">>

\* re.search(r"[^A-Za-z0-9_]", name)
HasSpecial(name) == \E i \in 1..Len(name) : name[i] \notin WordChars

MatchAt(text, i, pattern) ==
    /\ i + Len(pattern) - 1 <= Len(text)
    /\ SubSeq(text, i, i + Len(pattern) - 1) = pattern

\* backtick_pattern.sub: a name between backticks is put between double quotes
RECURSIVE BacktickSub(_, _, _)
BacktickSub(text, i, name) ==
    IF i > Len(text) THEN <<>>
    ELSE IF MatchAt(text, i, <<BT>> \o name \o <<BT>>)
         THEN <<DQ>> \o name \o <<DQ>> \o BacktickSub(text, i + Len(name) + 2, name)
         ELSE <<text[i]>> \o BacktickSub(text, i + 1, name)

\* the lookbehinds and lookaheads of unquoted_pattern at a match starting at i
Unquoted(text, i, name) ==
    /\ i = 1 \/ text[i - 1] \notin ({BT, DQ} \cup WordChars)
    /\ i + Len(name) > Len(text) \/ text[i + Len(name)] \notin {BT, DQ}

\* unquoted_pattern.sub: an unquoted name is put between double quotes
RECURSIVE UnquotedSub(_, _, _)
UnquotedSub(text, i, name) ==
    IF i > Len(text) THEN <<>>
    ELSE IF MatchAt(text, i, name) /\ Unquoted(text, i, name)
         THEN <<DQ>> \o name \o <<DQ>> \o UnquotedSub(text, i + Len(name), name)
         ELSE <<text[i]>> \o UnquotedSub(text, i + 1, name)

\* the two substitutions for one table or column name
SanitizeName(text, name) ==
    IF name = <<>> \/ ~HasSpecial(name)
    THEN text
    ELSE UnquotedSub(BacktickSub(text, 1, name), 1, name)

RECURSIVE SanitizeColumns(_, _)
SanitizeColumns(text, column_names) ==
    IF column_names = <<>> THEN text
    ELSE SanitizeColumns(SanitizeName(text, Head(column_names)), Tail(column_names))

_sanitize_sql_column_names(sql, column_names, table_name) ==
    IF sql = <<>> THEN sql
    ELSE SanitizeColumns(IF table_name # NoTable THEN SanitizeName(sql, table_name) ELSE sql,
                         column_names)

\* the inputs: column names with a space, one of them inside the other, and
\* SQL texts put together from these names bare, in double quotes or in
\* backticks, and from single characters
LeaseStart == <<"a", " ", "b">>
OriginalLeaseStartDate == <<"b", " ">> \o LeaseStart \o <<" ", "a">>
ColumnNames == {LeaseStart, OriginalLeaseStartDate}
TableName == <<"b", " ", "b">>
ColumnLists ==
    {<<>>} \cup {<<n>> : n \in ColumnNames}
           \cup {<<n, m>> : n \in ColumnNames, m \in ColumnNames}

Bare(name) == [style |-> "bare", name |-> name]
DoubleQuoted(name) == [style |-> "double", name |-> name]
Backticked(name) == [style |-> "backtick", name |-> name]
Pieces ==
    {Bare(n) : n \in ColumnNames} \cup {DoubleQuoted(n) : n \in ColumnNames}
    \cup {Backticked(n) : n \in ColumnNames \cup {TableName}}
    \cup {Bare(<<c>>) : c \in {"a", " ", DQ, BT}}

PieceText(piece) ==
    CASE piece.style = "double" -> <<DQ>> \o piece.name \o <<DQ>>
      [] piece.style = "backtick" -> <<BT>> \o piece.name \o <<BT>>
      [] OTHER -> piece.name

RECURSIVE SqlText(_)
SqlText(pieces) ==
    IF pieces = <<>> THEN <<>> ELSE PieceText(Head(pieces)) \o SqlText(Tail(pieces))

PieceLists == UNION {[1..n -> Pieces] : n \in 0..MaxPieces}

InitSanitize ==
    /\ CacheEmpty
    /\ ApiIdle
    /\ KeyIdle
    /\ RaceIdle
    /\ PipelineIdle
    /\ ThreadIdle
    /\ route_calls = NoCall
    /\ select_calls = NoCall
    /\ intent_calls = NoCall
    /\ unit_calls = NoCall
    /\ sanitize_calls \in [done : {FALSE}, pieces : PieceLists,
                           column_names : ColumnLists,
                           table_name : {NoTable, TableName}]

\* the sanitizer applied to the SQL text, and again to its own result
CallSanitize ==
    /\ ~sanitize_calls.done
    /\ LET sql == SqlText(sanitize_calls.pieces)
           once == _sanitize_sql_column_names(sql, sanitize_calls.column_names,
                                              sanitize_calls.table_name)
       IN sanitize_calls' =
              [done |-> TRUE, pieces |-> sanitize_calls.pieces,
               column_names |-> sanitize_calls.column_names,
               table_name |-> sanitize_calls.table_name,
               sql |-> sql, once |-> once,
               twice |-> _sanitize_sql_column_names(once, sanitize_calls.column_names,
                                                    sanitize_calls.table_name)]
    /\ UNCHANGED <<cache_entries, now, ops, apiVars, key_calls, raceVars, pipeVars,
                   threadVars, route_calls, select_calls, intent_calls, unit_calls>>

NextSanitize == CallSanitize

SpecSanitize == InitSanitize /\ [][NextSanitize]_vars

(***************************************************************************)
(* SemanticRouter.route (semantic_router.py).  A text is a sequence of     *)
(* words and single spaces; a keyword is contained in a text when its      *)
(* words and spaces occur in it contiguously (Python's "kw in text" on     *)
(* whole words).  Confidences are in hundredths.                            *)
(***************************************************************************)
MaxWords == 3

Phrase2(a, b) == <<a, " ", b>>
Phrase4(a, b, c, d) == <<a, " ", b, " ", c, " ", d>>

KPI_KEYWORDS ==
    << Phrase2("strategic", "overview"), Phrase2("portfolio", "analysis"),
       Phrase2("portfolio", "health"), Phrase2("kpi", "report"),
       Phrase2("performance", "report"), Phrase2("generate", "report"),
       Phrase2("critical", "analysis"), Phrase2("top", "performers"),
       Phrase2("operational", "focus"), <<"underperforming">>,
       Phrase2("portfolio", "summary"), Phrase2("performance", "overview"),
       Phrase2("property", "scorecard"), Phrase2("regional", "analysis"),
       Phrase2("office", "analysis") >>

QUERY_KEYWORDS ==
    << Phrase2("how", "many"), Phrase2("list", "all"),
       <<"show", " ", "me", " ", "all">>, <<"count">>,
       <<"what", " ", "is", " ", "the">>, <<"tell", " ", "me", " ", "about">>,
       Phrase2("properties", "in"), <<"average">>, <<"total">>,
       Phrase2("properties", "lost"), Phrase2("properties", "gained"),
       Phrase2("specific", "property"), Phrase2("property", "details") >>

strong_query_indicators ==
    << Phrase2("how", "many"), Phrase2("list", "all"), Phrase2("count", "of"),
       Phrase2("show", "all"), Phrase4("what", "is", "the", "occupancy"),
       Phrase4("what", "is", "the", "average") >>

\* str.lower() on the words an utterance is made of
LowerOf ==
    [w \in {"underperforming", "kpi", "report", "how", "many", "count", "dallas",
            "Underperforming", "KPI", "How", "MANY"} |->
        CASE w = "Underperforming" -> "underperforming"
          [] w = "KPI" -> "kpi"
          [] w = "How" -> "how"
          [] w = "MANY" -> "many"
          [] OTHER -> w]

UtteranceWords == DOMAIN LowerOf

Lower(text) ==
    [i \in 1..Len(text) |-> IF text[i] \in DOMAIN LowerOf THEN LowerOf[text[i]] ELSE text[i]]

RECURSIVE LStrip(_)
LStrip(text) ==
    IF text # <<>> /\ Head(text) = " " THEN LStrip(Tail(text)) ELSE text

RECURSIVE RStrip(_)
RStrip(text) ==
    IF text # <<>> /\ text[Len(text)] = " "
    THEN RStrip(SubSeq(text, 1, Len(text) - 1)) ELSE text

Strip(text) == RStrip(LStrip(text))

\* kw in query_lower
In(kw, text) ==
    \E i \in 1..(Len(text) - Len(kw) + 1) : SubSeq(text, i, i + Len(kw) - 1) = kw

\* the keywords of a list that the text contains, by position in the list
Matches(keywords, text) == {k \in 1..Len(keywords) : In(keywords[k], text)}

\* for kw in keywords: if kw in query_lower: return ... (first of the list)
FirstMatch(keywords, text) ==
    keywords[CHOOSE k \in Matches(keywords, text) :
                 \A j \in Matches(keywords, text) : k <= j]

NoKeyword == <<>>
LlmRaises == [raises |-> TRUE]
LlmResponses ==
    {LlmRaises}
    \cup [raises : {FALSE}, route : {"kpi", "query"}, confidence : {80}]
    \cup {[raises |-> FALSE]}

\* _llm_classify: one inference call; its answer, or the fallback on an error
_llm_classify(query, response) ==
    IF response.raises
    THEN [route |-> "query", confidence |-> 30, method |-> "llm_error",
          matched_keyword |-> NoKeyword, llm_calls |-> 1]
    ELSE [route |-> IF "route" \in DOMAIN response THEN response.route ELSE "query",
          confidence |-> IF "confidence" \in DOMAIN response
                         THEN response.confidence ELSE 50,
          method |-> "llm", matched_keyword |-> NoKeyword, llm_calls |-> 1]

KeywordResult(route_name, confidence, kw) ==
    [route |-> route_name, confidence |-> confidence, method |-> "keyword",
     matched_keyword |-> kw, llm_calls |-> 0]

\* (variant: the ad-hoc query indicators are tried before the report keywords)
RouteQueryFirst(query, response) ==
    LET query_lower == Strip(Lower(query))
    IN IF Matches(strong_query_indicators, query_lower) # {}
       THEN KeywordResult("query", 90, FirstMatch(strong_query_indicators, query_lower))
       ELSE IF Matches(KPI_KEYWORDS, query_lower) # {}
       THEN KeywordResult("kpi", 95, FirstMatch(KPI_KEYWORDS, query_lower))
       ELSE _llm_classify(query, response)

\* (variant: the report keywords are handed to the classifier as a hint)
RouteAlwaysClassifies(query, response) ==
    LET query_lower == Strip(Lower(query))
    IN IF Matches(KPI_KEYWORDS, query_lower) # {}
       THEN [_llm_classify(query, response) EXCEPT !.route = "kpi"]
       ELSE IF Matches(strong_query_indicators, query_lower) # {}
       THEN KeywordResult("query", 90, FirstMatch(strong_query_indicators, query_lower))
       ELSE _llm_classify(query, response)

route(query, response) ==
    LET query_lower == Strip(Lower(query))
    IN IF Matches(KPI_KEYWORDS, query_lower) # {}
       THEN KeywordResult("kpi", 95, FirstMatch(KPI_KEYWORDS, query_lower))
       ELSE IF Matches(strong_query_indicators, query_lower) # {}
       THEN KeywordResult("query", 90, FirstMatch(strong_query_indicators, query_lower))
       ELSE _llm_classify(query, response)

\* the utterance: words joined by single spaces, with or without blanks around
RECURSIVE Join(_)
Join(words) ==
    IF Len(words) <= 1 THEN words ELSE <<Head(words), " ">> \o Join(Tail(words))

Padded(words, padded) == IF padded THEN <<" ">> \o Join(words) \o <<" ">> ELSE Join(words)

WordLists == UNION {[1..n -> UtteranceWords] : n \in 0..MaxWords}

InitRoute ==
    /\ CacheEmpty
    /\ ApiIdle
    /\ KeyIdle
    /\ RaceIdle
    /\ PipelineIdle
    /\ ThreadIdle
    /\ sanitize_calls = NoCall
    /\ select_calls = NoCall
    /\ intent_calls = NoCall
    /\ unit_calls = NoCall
    /\ route_calls \in [done : {FALSE}, words : WordLists, padded : BOOLEAN,
                        response : LlmResponses]

CallRoute ==
    /\ ~route_calls.done
    /\ LET query == Padded(route_calls.words, route_calls.padded)
       IN route_calls' =
              [done |-> TRUE, words |-> route_calls.words,
               padded |-> route_calls.padded, response |-> route_calls.response,
               query |-> query, query_lower |-> Strip(Lower(query)),
               result |-> route(query, route_calls.response)]
    /\ UNCHANGED <<cache_entries, now, ops, apiVars, key_calls, raceVars, pipeVars,
                   threadVars, sanitize_calls, select_calls, intent_calls, unit_calls>>

NextRoute == CallRoute

SpecRoute == InitRoute /\ [][NextRoute]_vars

(***************************************************************************)
(* _select_columns_with_llm (nodes.py): the answer of the inference        *)
(* backend, filtered to the columns of the dataset.                        *)
(***************************************************************************)
MaxSelected == 2
MaxMappings == 1

\* columns of a dataset with the examples of their metadata
LossReason == [name |-> "record_loss_reason", examples |-> {"Sale", "Other"}]
PendingLossDate == [name |-> "record_pending_loss_date", examples |-> {}]
RecordStatus == [name |-> "record_status", examples |-> {"Lost", "Active"}]
DatasetColumns == {LossReason, PendingLossDate, RecordStatus}

\* names the backend can answer with: those of the dataset and one of no column
AnsweredNames == {c.name : c \in DatasetColumns} \cup {"no_such_column"}
FilterValues == {"lost", "Sale"}
Mappings == [concept : {"status"}, column : AnsweredNames, value : FilterValues]

SeqsUpTo(S, n) == UNION {[1..k -> S] : k \in 0..n}

\* generate_structured: raises, or a dict in which any key may be missing
SelectorRaises == [raises |-> TRUE]
SelectorResponses ==
    {SelectorRaises}
    \cup [raises : {FALSE}, selected_columns : SeqsUpTo(AnsweredNames, MaxSelected),
          filter_mappings : SeqsUpTo(Mappings, MaxMappings)]
    \cup [raises : {FALSE}, filter_mappings : SeqsUpTo(Mappings, MaxMappings)]
    \cup [raises : {FALSE}, selected_columns : SeqsUpTo(AnsweredNames, MaxSelected)]

\* result.get(key, [])
GetList(result, key) == IF key \in DOMAIN result THEN result[key] ELSE <<>>

\* [x for x in list if keep(x)]
RECURSIVE KeepNamed(_, _)
KeepNamed(names, valid) ==
    IF names = <<>> THEN <<>>
    ELSE IF Head(names) \in valid
         THEN <<Head(names)>> \o KeepNamed(Tail(names), valid)
         ELSE KeepNamed(Tail(names), valid)

RECURSIVE KeepMappings(_, _)
KeepMappings(mappings, valid) ==
    IF mappings = <<>> THEN <<>>
    ELSE IF Head(mappings).column \in valid
         THEN <<Head(mappings)>> \o KeepMappings(Tail(mappings), valid)
         ELSE KeepMappings(Tail(mappings), valid)

_select_columns_with_llm(all_columns, result) ==
    IF result.raises THEN [raised |-> TRUE]
    ELSE LET valid_column_names == {col.name : col \in all_columns}
         IN [raised |-> FALSE,
             selected_columns |->
                 KeepNamed(GetList(result, "selected_columns"), valid_column_names),
             filter_mappings |->
                 KeepMappings(GetList(result, "filter_mappings"), valid_column_names)]

InitSelect ==
    /\ CacheEmpty
    /\ ApiIdle
    /\ KeyIdle
    /\ RaceIdle
    /\ PipelineIdle
    /\ ThreadIdle
    /\ sanitize_calls = NoCall
    /\ route_calls = NoCall
    /\ intent_calls = NoCall
    /\ unit_calls = NoCall
    /\ select_calls \in [done : {FALSE}, all_columns : SUBSET DatasetColumns,
                         result : SelectorResponses]

CallSelect ==
    /\ ~select_calls.done
    /\ select_calls' =
           [done |-> TRUE, all_columns |-> select_calls.all_columns,
            result |-> select_calls.result,
            returned |-> _select_columns_with_llm(select_calls.all_columns,
                                                  select_calls.result)]
    /\ UNCHANGED <<cache_entries, now, ops, apiVars, key_calls, raceVars, pipeVars,
                   threadVars, sanitize_calls, route_calls, intent_calls, unit_calls>>

NextSelect == CallSelect

SpecSelect == InitSelect /\ [][NextSelect]_vars

(***************************************************************************)
(* analyze_query_intent_node (nodes.py): the intent of the utterance as    *)
(* the inference backend answers it, or the minimal intent when anything   *)
(* in the node raises.                                                     *)
(***************************************************************************)
MaxListed == 1

\* _should_reuse_previous_dataset: the phrases that ask for more results
more_patterns ==
    << <<"show", " ", "me", " ", "more">>, Phrase2("show", "more"),
       Phrase2("get", "more"), Phrase2("more", "results"), Phrase2("more", "data"),
       <<"more", " ", "of", " ", "those">>, <<"more", " ", "from", " ", "that">>,
       Phrase4("more", "from", "the", "same"), Phrase2("what", "else"),
       Phrase2("any", "more"), <<"are", " ", "there", " ", "more">>,
       <<"give", " ", "me", " ", "more">> >>

\* the surface test of the utterance; no node calls it
_should_reuse_previous_dataset(query, prev_dataset_id) ==
    IF prev_dataset_id = NoneStr \/ prev_dataset_id = ""
    THEN FALSE
    ELSE Matches(more_patterns, Strip(Lower(query))) # {}

EmptyQuery == <<>>
IntentQueries ==
    {EmptyQuery, <<"show", " ", "me", " ", "more">>,
     <<" ", "dallas", " ", "show", " ", "more">>, <<"How", " ", "many">>}

ContinuationTypes == {"pagination", "refinement", "clarification", "new_query"}

\* generate_structured: raises, or answers a dict; the schema names the keys,
\* a backend that ignores it can answer fewer
IntentAnswers ==
    [is_continuation : BOOLEAN, is_pagination_request : BOOLEAN,
     continuation_type : ContinuationTypes,
     metrics_needed : SeqsUpTo({"count"}, MaxListed),
     dimensions_needed : {<<>>}, filters : {<<>>},
     aggregations : SeqsUpTo({"sum"}, MaxListed), temporal_needed : BOOLEAN]
    \cup [aggregations : SeqsUpTo({"sum"}, MaxListed)]

IntentResponses == [raises : BOOLEAN, answer : IntentAnswers]

\* (variant: the intent returned on an error asks for the next page)
pagination_intent ==
    [is_pagination_request |-> TRUE, metrics_needed |-> <<>>,
     dimensions_needed |-> <<>>, filters |-> <<>>, aggregations |-> <<>>,
     temporal_needed |-> FALSE]

\* lines 805-811
minimal_intent ==
    [metrics_needed |-> <<>>, dimensions_needed |-> <<>>, filters |-> <<>>,
     aggregations |-> <<>>, temporal_needed |-> FALSE]

\* lines 784-785
WithoutAggregations(result) ==
    IF result.aggregations # <<>> THEN [result EXCEPT !.aggregations = <<>>] ELSE result

StepEntry(status) == [step |-> "analyze_intent", status |-> status]

\* the node: what it returns, the steps it logs and the inference calls made;
\* every exception is caught at line 796
analyze_query_intent_node(query, steps, response) ==
    IF query = EmptyQuery
    THEN [raised |-> FALSE, query_intent |-> minimal_intent,
          steps |-> Append(steps, StepEntry("error")), llm_calls |-> 0]
    ELSE IF response.raises
    THEN [raised |-> FALSE, query_intent |-> minimal_intent,
          steps |-> Append(steps, StepEntry("error")), llm_calls |-> 1]
    ELSE [raised |-> FALSE, query_intent |-> WithoutAggregations(response.answer),
          steps |-> Append(steps, StepEntry("completed")), llm_calls |-> 1]

\* intent.get("is_pagination_request", False), as the later nodes read it
IsPaginationRequest(intent) ==
    IF "is_pagination_request" \in DOMAIN intent
    THEN intent.is_pagination_request ELSE FALSE

\* intent.get("continuation_type")
ContinuationType(intent) ==
    IF "continuation_type" \in DOMAIN intent THEN intent.continuation_type ELSE NoneStr

InitIntent ==
    /\ CacheEmpty
    /\ ApiIdle
    /\ KeyIdle
    /\ RaceIdle
    /\ PipelineIdle
    /\ ThreadIdle
    /\ sanitize_calls = NoCall
    /\ route_calls = NoCall
    /\ select_calls = NoCall
    /\ unit_calls = NoCall
    /\ intent_calls \in [done : {FALSE}, query : IntentQueries,
                         previous_dataset_id : {NoneStr, "d1"},
                         response : IntentResponses]

CallIntent ==
    /\ ~intent_calls.done
    /\ intent_calls' =
           [done |-> TRUE, query |-> intent_calls.query,
            previous_dataset_id |-> intent_calls.previous_dataset_id,
            response |-> intent_calls.response,
            returned |-> analyze_query_intent_node(intent_calls.query, <<>>,
                                                   intent_calls.response)]
    /\ UNCHANGED <<cache_entries, now, ops, apiVars, key_calls, raceVars, pipeVars,
                   threadVars, sanitize_calls, route_calls, select_calls, unit_calls>>

NextIntent == CallIntent

SpecIntent == InitIntent /\ [][NextIntent]_vars

(***************************************************************************)
(* Functions checked on their own through unit_calls.                      *)
(***************************************************************************)
OthersIdle ==
    /\ CacheEmpty
    /\ ApiIdle
    /\ KeyIdle
    /\ RaceIdle
    /\ PipelineIdle
    /\ ThreadIdle
    /\ sanitize_calls = NoCall
    /\ route_calls = NoCall
    /\ select_calls = NoCall
    /\ intent_calls = NoCall

OthersUnchanged ==
    UNCHANGED <<cache_entries, now, ops, apiVars, key_calls, raceVars, pipeVars,
                threadVars, sanitize_calls, route_calls, select_calls, intent_calls>>

(***************************************************************************)
(* _summarize_conversation_if_needed (routes.py).                          *)
(***************************************************************************)
MaxMessages == 12

MAX_TURNS == 5
MAX_MESSAGES == MAX_TURNS * 2

\* the history of a conversation: human and assistant messages in turn
Opposite(kind) == IF kind = "human" THEN "ai" ELSE "human"
History(n, first) ==
    [i \in 1..n |-> [kind |-> IF i % 2 = 1 THEN first ELSE Opposite(first), content |-> i]]

\* (variant: the first messages of the history are the ones kept)
keep_first(msgs) == SubSeq(msgs, 1, MAX_MESSAGES)

\* messages[:-MAX_MESSAGES] and messages[-MAX_MESSAGES:] of a longer history
messages_to_summarize(msgs) == SubSeq(msgs, 1, Len(msgs) - MAX_MESSAGES)
messages_to_keep(msgs) == SubSeq(msgs, Len(msgs) - MAX_MESSAGES + 1, Len(msgs))

\* SystemMessage(content="[Conversation Summary]: ...")
summary_message(new_summary) == [kind |-> "system", content |-> new_summary]

\* the summary the inference backend writes of older messages and a summary
NoSummary == <<"None">>
NewSummary(older, existing_summary) ==
    <<"summary of", Len(older)>> \o existing_summary

_summarize_conversation_if_needed(msgs, existing_summary, llm_ok) ==
    IF Len(msgs) <= MAX_MESSAGES
    THEN [messages |-> msgs, summary |-> existing_summary, llm_calls |-> 0]
    ELSE IF llm_ok
    THEN LET new_summary == NewSummary(messages_to_summarize(msgs), existing_summary)
         IN [messages |-> <<summary_message(new_summary)>> \o messages_to_keep(msgs),
             summary |-> new_summary, llm_calls |-> 1]
    ELSE [messages |-> msgs, summary |-> existing_summary, llm_calls |-> 1]

InitSummarize ==
    /\ OthersIdle
    /\ unit_calls \in
           {[done |-> FALSE, unit |-> "summarize", messages |-> History(n, first),
             existing_summary |-> es, llm_ok |-> ok] :
                n \in 0..MaxMessages, first \in {"human", "ai"},
                es \in {NoSummary, <<"summary">>}, ok \in BOOLEAN}

CallSummarize ==
    /\ ~unit_calls.done
    /\ unit_calls.unit = "summarize"
    /\ unit_calls' =
           [unit_calls EXCEPT !.done = TRUE] @@
           [returned |-> _summarize_conversation_if_needed(
                             unit_calls.messages, unit_calls.existing_summary,
                             unit_calls.llm_ok)]
    /\ OthersUnchanged

NextSummarize == CallSummarize

SpecSummarize == InitSummarize /\ [][NextSummarize]_vars

(***************************************************************************)
(* The SQL text of a turn: generate_sql_node (nodes.py) takes it from the  *)
(* answer of the inference backend, _generate_sql_helper (tools.py)        *)
(* assembles it from the components of the answer.  A SQL text is a        *)
(* sequence of words.                                                      *)
(***************************************************************************)
MaxClauseItems == 1

\* a table name of word characters only, which the sanitizer leaves alone
PlainTable == <<"a">>
LimitAnswers == {None, 0, 5}
LimitWord == [l \in {0, 5} |-> IF l = 0 THEN "0" ELSE "5"]

ClauseItems(S) == SeqsUpTo(S, MaxClauseItems)

\* the dict the tool pipeline asks of the inference backend (response_format)
ToolSqlAnswers ==
    [select_columns : ClauseItems({"*"}), where_conditions : ClauseItems({"c"}),
     group_by : ClauseItems({"g"}), having_conditions : ClauseItems({"h"}),
     order_by : ClauseItems({"o"}), limit : LimitAnswers]

\* the dict the node pipeline asks of it
NodeSqlAnswers ==
    [sql_query : {<<>>, <<"SELECT", "*", "FROM">> \o PlainTable,
                  <<"SELECT", "*", "FROM">> \o PlainTable \o <<"LIMIT", "5">>}]

\* ", ".join(items) and " AND ".join(f"({cond})" ...): the items in order
Joined(items) == items

\* tools.py lines 558-591
_generate_sql_helper(result, column_names, table_name) ==
    LET select_clause == IF result.select_columns # <<>>
                         THEN Joined(result.select_columns) ELSE <<"*">>
        from == <<"SELECT">> \o select_clause \o <<"FROM", DQ>> \o table_name \o <<DQ>>
        where == IF result.where_conditions # <<>>
                 THEN <<"WHERE">> \o Joined(result.where_conditions) ELSE <<>>
        group == IF result.group_by # <<>>
                 THEN <<"GROUP BY">> \o Joined(result.group_by) ELSE <<>>
        having == IF result.having_conditions # <<>>
                  THEN <<"HAVING">> \o Joined(result.having_conditions) ELSE <<>>
        order == IF result.order_by # <<>>
                 THEN <<"ORDER BY">> \o Joined(result.order_by) ELSE <<>>
        limit == IF result.limit # None /\ result.limit # 0
                 THEN <<"LIMIT", LimitWord[result.limit]>> ELSE <<>>
    IN _sanitize_sql_column_names(from \o where \o group \o having \o order \o limit,
                                  column_names, table_name)

\* nodes.py lines 1300-1304
generate_sql_node(result, column_names, table_name) ==
    _sanitize_sql_column_names(result.sql_query, column_names, table_name)

InitSql ==
    /\ OthersIdle
    /\ unit_calls \in
           [done : {FALSE}, unit : {"sql"}, pipeline : {"tool"},
            asks_number : BOOLEAN, result : ToolSqlAnswers]
           \cup [done : {FALSE}, unit : {"sql"}, pipeline : {"node"},
                 asks_number : BOOLEAN, result : NodeSqlAnswers]

CallSql ==
    /\ ~unit_calls.done
    /\ unit_calls.unit = "sql"
    /\ unit_calls' =
           [unit_calls EXCEPT !.done = TRUE] @@
           [sql_query |->
                IF unit_calls.pipeline = "tool"
                THEN _generate_sql_helper(unit_calls.result, <<>>, PlainTable)
                ELSE generate_sql_node(unit_calls.result, <<>>, PlainTable)]
    /\ OthersUnchanged

NextSql == CallSql

SpecSql == InitSql /\ [][NextSql]_vars

(***************************************************************************)
(* The multi-faceted column search of nodes.py.  A hit is the normalized   *)
(* search result: its id, its score and, standing for the payload, the     *)
(* facet search that returned it.  all_results is the dict id -> result,   *)
(* held as the sequence of its values in insertion order.                  *)
(***************************************************************************)

MaxHits == 2
MaxTemporalHits == 1

HitIds == {"c1", "c2"}
HitScores == {1, 2}

Hits(facet) == [id : HitIds, score : HitScores, via : {facet}]

\* result_id not in all_results
NotIn(result_id, all_results) ==
    \A i \in 1..Len(all_results) : all_results[i].id # result_id

\* all_results[result_id]
Entry(result_id, all_results) ==
    all_results[CHOOSE i \in 1..Len(all_results) : all_results[i].id = result_id]

\* all_results[result_id] = result
Put(all_results, result) ==
    IF NotIn(result.id, all_results)
    THEN Append(all_results, result)
    ELSE [i \in 1..Len(all_results) |->
              IF all_results[i].id = result.id THEN result ELSE all_results[i]]

FirstWriteWins(result, all_results) ==
    NotIn(result.id, all_results)

Replaces(result, all_results) ==
    \/ NotIn(result.id, all_results)
    \/ result.score > Entry(result.id, all_results).score

RECURSIVE MergeFacet(_, _)
MergeFacet(all_results, results) ==
    IF results = <<>> THEN all_results
    ELSE MergeFacet(IF Replaces(Head(results), all_results)
                    THEN Put(all_results, Head(results))
                    ELSE all_results,
                    Tail(results))

RECURSIVE MergeFacets(_, _)
MergeFacets(all_results, facets) ==
    IF facets = <<>> THEN all_results
    ELSE MergeFacets(MergeFacet(all_results, Head(facets)), Tail(facets))

RECURSIVE MergeGeneral(_, _)
MergeGeneral(all_results, results) ==
    IF results = <<>> THEN all_results
    ELSE MergeGeneral(IF NotIn(Head(results).id, all_results)
                      THEN Put(all_results, Head(results))
                      ELSE all_results,
                      Tail(results))

\* sorted(values, key = score, reverse = True): stable, descending
RECURSIVE InsertByScore(_, _)
InsertByScore(sorted, result) ==
    IF sorted = <<>> THEN <<result>>
    ELSE IF Head(sorted).score >= result.score
         THEN <<Head(sorted)>> \o InsertByScore(Tail(sorted), result)
         ELSE <<result>> \o sorted

RECURSIVE SortedByScore(_)
SortedByScore(values) ==
    IF values = <<>> THEN <<>>
    ELSE InsertByScore(SortedByScore(SubSeq(values, 1, Len(values) - 1)),
                       values[Len(values)])

\* the hits of a facet search that runs only when the intent asks for it
Searched(needed, results) == IF needed THEN results ELSE <<>>

_multi_faceted_column_search(intent, metrics_results, dimensions_results, temporal_results, general_results) ==
    LET all_results ==
            MergeFacets(<<>>,
                <<Searched(intent.metrics_needed, metrics_results),
                  Searched(intent.dimensions_needed, dimensions_results),
                  Searched(intent.temporal_needed, temporal_results)>>)
    IN  SortedByScore(IF all_results = <<>>
                      THEN MergeGeneral(all_results, general_results)
                      ELSE all_results)

Intents == [metrics_needed : BOOLEAN, dimensions_needed : BOOLEAN,
            temporal_needed : BOOLEAN]

InitMerge ==
    /\ OthersIdle
    /\ unit_calls \in
           {c \in [done : {FALSE}, unit : {"merge"}, intent : Intents,
                   metrics_results : SeqsUpTo(Hits("metrics"), MaxHits),
                   dimensions_results : SeqsUpTo(Hits("dimensions"), MaxHits),
                   temporal_results : SeqsUpTo(Hits("temporal"), MaxTemporalHits),
                   general_results : SeqsUpTo(Hits("general"), MaxTemporalHits)] :
               /\ ~c.intent.metrics_needed => c.metrics_results = <<>>
               /\ ~c.intent.dimensions_needed => c.dimensions_results = <<>>
               /\ ~c.intent.temporal_needed => c.temporal_results = <<>>
               /\ c.general_results # <<>> =>
                      /\ c.metrics_results = <<>>
                      /\ c.dimensions_results = <<>>
                      /\ c.temporal_results = <<>>}

CallMerge ==
    /\ ~unit_calls.done
    /\ unit_calls.unit = "merge"
    /\ unit_calls' =
           [unit_calls EXCEPT !.done = TRUE] @@
           [returned |->
                _multi_faceted_column_search(unit_calls.intent,
                    unit_calls.metrics_results, unit_calls.dimensions_results,
                    unit_calls.temporal_results, unit_calls.general_results)]
    /\ OthersUnchanged

NextMerge == CallMerge

SpecMerge == InitMerge /\ [][NextMerge]_vars

(***************************************************************************)
(* The selection of the dataset from the merged hits, in search_columns_node*)
(* (nodes.py) and in query_database_tool (tools.py).  A result carries the *)
(* dataset_id of its payload (NoneStr when the payload has none) and its   *)
(* score; dataset_groups is the dict dataset_id -> entry, held as the      *)
(* sequence of its values in insertion order.                              *)
(***************************************************************************)

MaxResults == 3

PayloadDatasets == Datasets \cup {NoneStr}

RankedResults ==
    {r \in SeqsUpTo([dataset_id : PayloadDatasets, score : HitScores], MaxResults) :
        \A i \in 1..Len(r) - 1 : r[i].score >= r[i + 1].score}

\* the loop that fills dataset_groups; results without dataset_id are skipped
RECURSIVE GroupByDataset(_, _)
GroupByDataset(dataset_groups, results) ==
    IF results = <<>> THEN dataset_groups
    ELSE LET result == Head(results)
             known == \E i \in 1..Len(dataset_groups) :
                          dataset_groups[i].dataset_id = result.dataset_id
             next ==
                 IF result.dataset_id = NoneStr THEN dataset_groups
                 ELSE IF known
                 THEN [i \in 1..Len(dataset_groups) |->
                          IF dataset_groups[i].dataset_id = result.dataset_id
                          THEN [dataset_groups[i] EXCEPT
                                    !.columns = Append(@, result.score)]
                          ELSE dataset_groups[i]]
                 ELSE Append(dataset_groups,
                             [dataset_id |-> result.dataset_id,
                              columns |-> <<result.score>>])
         IN  GroupByDataset(next, Tail(results))

RECURSIVE Sum(_)
Sum(scores) == IF scores = <<>> THEN 0 ELSE Head(scores) + Sum(Tail(scores))

PreviousBoost == 1000

\* _rank of search_columns_node: (total_score, len(columns))
_rank(entry, is_pagination, previous) ==
    <<Sum(entry.columns)
          + (IF is_pagination /\ entry.dataset_id = previous
             THEN PreviousBoost ELSE 0),
      Len(entry.columns)>>

\* comparison of two tuples, as Python compares them
TupleLess(a, b) == a[1] < b[1] \/ (a[1] = b[1] /\ a[2] < b[2])

\* max(dataset_groups.values(), key=_rank): the first entry of maximal key
NodeSelectedDataset(dataset_groups, is_pagination, previous) ==
    dataset_groups[
        CHOOSE i \in 1..Len(dataset_groups) :
            /\ \A j \in 1..Len(dataset_groups) :
                   ~TupleLess(_rank(dataset_groups[i], is_pagination, previous),
                              _rank(dataset_groups[j], is_pagination, previous))
            /\ \A j \in 1..(i - 1) :
                   TupleLess(_rank(dataset_groups[j], is_pagination, previous),
                             _rank(dataset_groups[i], is_pagination, previous))]

\* sorted(dataset_groups.values(), key=sum of scores, reverse=True)[0]: the
\* sort is stable, so the first entry of maximal sum
ToolSelectedDataset(dataset_groups) ==
    dataset_groups[
        CHOOSE i \in 1..Len(dataset_groups) :
            /\ \A j \in 1..Len(dataset_groups) :
                   Sum(dataset_groups[j].columns) <= Sum(dataset_groups[i].columns)
            /\ \A j \in 1..(i - 1) :
                   Sum(dataset_groups[j].columns) < Sum(dataset_groups[i].columns)]

SelectDataset(pipeline, normalized_results, is_pagination, previous) ==
    LET dataset_groups == GroupByDataset(<<>>, normalized_results) IN
    IF dataset_groups = <<>>
    THEN [error |-> TRUE, selected_dataset_id |-> NoneStr,
          dataset_groups |-> dataset_groups]
    ELSE [error |-> FALSE,
          selected_dataset_id |->
              IF pipeline = "node"
              THEN NodeSelectedDataset(dataset_groups, is_pagination, previous).dataset_id
              ELSE ToolSelectedDataset(dataset_groups).dataset_id,
          dataset_groups |-> dataset_groups]

InitRank ==
    /\ OthersIdle
    /\ unit_calls \in
           [done : {FALSE}, unit : {"rank"}, pipeline : {"node"},
            normalized_results : RankedResults,
            is_pagination_request : BOOLEAN,
            previous_dataset_id : PayloadDatasets]
           \cup [done : {FALSE}, unit : {"rank"}, pipeline : {"tool"},
                 normalized_results : RankedResults,
                 is_pagination_request : {FALSE},
                 previous_dataset_id : {NoneStr}]

CallRank ==
    /\ ~unit_calls.done
    /\ unit_calls.unit = "rank"
    /\ unit_calls' =
           [unit_calls EXCEPT !.done = TRUE] @@
           [returned |->
                SelectDataset(unit_calls.pipeline, unit_calls.normalized_results,
                              unit_calls.is_pagination_request,
                              unit_calls.previous_dataset_id)]
    /\ OthersUnchanged

NextRank == CallRank

SpecRank == InitRank /\ [][NextRank]_vars

(***************************************************************************)
(* The stages of a turn and the collaborators they call: the nodes of      *)
(* nodes.py and the steps of query_database_tool (tools.py).  failing is   *)
(* the set of collaborators whose calls fail during the stage; cached says *)
(* whether the cache holds an entry for the lookup of the stage.  A failed *)
(* inference or index call raises; CacheService catches its own failures   *)
(* (get answers None, set does nothing); DomoService.execute_query answers *)
(* a dict with success False.                                              *)
(***************************************************************************)

Collaborators == {"inference", "index", "cache", "backend"}

Raising == {"inference", "index"}

NodeStages == {"analyze_intent", "search_columns", "generate_sql", "execute_query"}

ToolStages == {"search_columns", "generate_sql", "execute_query"}

CacheHit(use, cached, failing) == use /\ cached /\ "cache" \notin failing

IfCache(use) == IF use THEN <<"cache">> ELSE <<>>

\* the collaborator calls of a stage, in the order the code makes them
StageCalls(pipeline, stage, use, cached, failing) ==
    LET hit == CacheHit(use, cached, failing) IN
    IF pipeline = "node"
    THEN CASE stage = "analyze_intent" -> <<"inference">>
           [] stage = "search_columns" ->
                  IfCache(use)
                  \o (IF hit THEN <<>> ELSE <<"index">> \o IfCache(use))
                  \o <<"index", "inference">>
           [] stage = "generate_sql" ->
                  IfCache(use)
                  \o (IF hit THEN <<>> ELSE <<"inference">> \o IfCache(use))
           [] stage = "execute_query" ->
                  IfCache(use)
                  \o (IF hit THEN <<>>
                      ELSE <<"backend">>
                           \o IfCache(use /\ "backend" \notin failing))
                  \o <<"inference">>
    ELSE CASE stage = "search_columns" -> <<"index", "index", "index", "inference">>
           [] stage = "generate_sql" ->
                  IfCache(use)
                  \o (IF hit THEN <<>> ELSE <<"inference">> \o IfCache(use))
           [] stage = "execute_query" ->
                  IfCache(use)
                  \o (IF hit THEN <<>> ELSE <<"backend">> \o IfCache(use))

\* the calls made up to and including the first one that raises
RECURSIVE CallsMade(_, _)
CallsMade(calls, failing) ==
    IF calls = <<>> THEN <<>>
    ELSE IF Head(calls) \in failing /\ Head(calls) \in Raising
         THEN <<Head(calls)>>
         ELSE <<Head(calls)>> \o CallsMade(Tail(calls), failing)

Elements(seq) == {seq[i] : i \in 1..Len(seq)}

\* a node: the body is inside try, the except branch logs a step of status
\* 'error' and returns; execute_query_node logs 'error' as well when the
\* backend answered success False
NodeStage(stage, made, failing) ==
    LET failed == Elements(made) \cap failing
        raised == failed \cap Raising # {}
    IN  [escaped |-> FALSE,
         failed |-> failed,
         error |-> raised /\ stage # "analyze_intent",
         step_status |->
             IF raised \/ "backend" \in failed THEN "error" ELSE "completed"]

\* query_database_tool: no try; the steps of its payload carry a name and a
\* duration, no status
ToolStage(stage, made, failing) ==
    LET failed == Elements(made) \cap failing
        raised == failed \cap Raising # {}
    IN  [escaped |-> raised,
         failed |-> failed,
         error |-> FALSE,
         step_status |-> NoneStr]

RunStage(pipeline, stage, use, cached, failing) ==
    LET made == CallsMade(StageCalls(pipeline, stage, use, cached, failing), failing)
    IN  IF pipeline = "node"
        THEN NodeStage(stage, made, failing)
        ELSE ToolStage(stage, made, failing)

InitStage ==
    /\ OthersIdle
    /\ unit_calls \in
           {c \in [done : {FALSE}, unit : {"stage"}, pipeline : {"node"},
                   stage : NodeStages, use_cache : BOOLEAN, cached : BOOLEAN,
                   failing : SUBSET Collaborators]
               \cup [done : {FALSE}, unit : {"stage"}, pipeline : {"tool"},
                     stage : ToolStages, use_cache : BOOLEAN, cached : BOOLEAN,
                     failing : SUBSET Collaborators] :
               /\ c.cached => c.use_cache
               /\ c.failing \subseteq
                      Elements(StageCalls(c.pipeline, c.stage, c.use_cache,
                                          c.cached, c.failing))}

CallStage ==
    /\ ~unit_calls.done
    /\ unit_calls.unit = "stage"
    /\ unit_calls' =
           [unit_calls EXCEPT !.done = TRUE] @@
           [returned |->
                RunStage(unit_calls.pipeline, unit_calls.stage,
                         unit_calls.use_cache, unit_calls.cached,
                         unit_calls.failing)]
    /\ OthersUnchanged

NextStage == CallStage

SpecStage == InitStage /\ [][NextStage]_vars

(***************************************************************************)
(* The routed agent graph of graph.py.  unit_calls holds the state of the  *)
(* graph (messages, route, route_confidence, route_method), the node that  *)
(* runs next (pc), the nodes run so far in the turn (ran) and the answer   *)
(* the inference backend gives to the router's classification call.  The   *)
(* state given to a turn is the one of the checkpoint: the route fields    *)
(* are absent on the first turn and hold the previous turn's values after. *)
(***************************************************************************)

MaxGraphMessages == 2

GraphUtterances == {<<"How", "MANY">>, <<"dallas">>}

HumanMessages == [type : {"human"}, content : {Join(w) : w \in GraphUtterances}]

AIMessage == [type |-> "ai", content |-> <<>>]

GraphMessages == SeqsUpTo(HumanMessages \cup {AIMessage}, MaxGraphMessages)

RouteFields == {"route", "route_confidence", "route_method"}

CheckpointedRoutes ==
    {[route |-> NoneStr, route_confidence |-> None, route_method |-> NoneStr],
     [route |-> "kpi", route_confidence |-> 95, route_method |-> "keyword"]}

\* the last HumanMessage of the list, scanning from the end
RECURSIVE LastHuman(_)
LastHuman(msgs) ==
    IF msgs = <<>> THEN AIMessage
    ELSE IF msgs[Len(msgs)].type = "human"
         THEN msgs[Len(msgs)]
         ELSE LastHuman(SubSeq(msgs, 1, Len(msgs) - 1))

\* route_query: the update of the state it returns
route_query(state, llm_response) ==
    LET last_human_message == LastHuman(state.messages) IN
    IF last_human_message.type # "human"
    THEN [route |-> "query", route_confidence |-> 50, route_method |-> "default"]
    ELSE LET result == route(last_human_message.content, llm_response)
         IN  [route |-> result.route, route_confidence |-> result.confidence,
              route_method |-> result.method]

\* (variant: the guardrail falls back to 'query' below full confidence)
validate_overrides(state) ==
    IF state.route_confidence < 95
    THEN [f \in {"route"} |-> "query"]
    ELSE [f \in {} |-> NoneStr]

\* validate_route: return {}
validate_route(state) == [f \in {} |-> NoneStr]

\* get_route: state.get("route", "query")
get_route(state) == IF state.route = NoneStr THEN "query" ELSE state.route

\* the mapping of the conditional edge
RouteEdges == [kpi |-> "kpi_agent", query |-> "query_agent"]

\* a node's returned update applied to the state of the graph
ApplyUpdate(state, update) ==
    [f \in DOMAIN state |-> IF f \in DOMAIN update THEN update[f] ELSE state[f]]

GraphState(c) ==
    [f \in RouteFields \cup {"messages"} |-> c[f]]

InitGraph ==
    /\ OthersIdle
    /\ unit_calls \in
           {c \in [done : {FALSE}, unit : {"graph"}, pc : {"route"},
                   messages : GraphMessages,
                   route : {NoneStr, "kpi"},
                   route_confidence : {None, 95},
                   route_method : {NoneStr, "keyword"},
                   response : LlmResponses,
                   ran : {<<>>}, raised : {FALSE}] :
               [f \in RouteFields |-> c[f]] \in CheckpointedRoutes}

RunNode(name, update, next, raised) ==
    unit_calls' =
        [f \in DOMAIN unit_calls |->
            CASE f \in DOMAIN update -> update[f]
              [] f = "pc" -> next
              [] f = "ran" -> Append(unit_calls.ran, name)
              [] f = "done" -> next = "END"
              [] f = "raised" -> raised
              [] OTHER -> unit_calls[f]]

RouteQueryNode ==
    /\ unit_calls.unit = "graph"
    /\ unit_calls.pc = "route"
    /\ \E update \in {route_query(GraphState(unit_calls), unit_calls.response)} :
           RunNode("route", update, "validate", FALSE)
    /\ OthersUnchanged

ValidateRouteNode ==
    /\ unit_calls.unit = "graph"
    /\ unit_calls.pc = "validate"
    /\ LET update == validate_route(GraphState(unit_calls))
       IN  RunNode("validate", update,
                   RouteEdges[get_route(ApplyUpdate(GraphState(unit_calls), update))],
                   FALSE)
    /\ OthersUnchanged

\* call_kpi_agent: the sub-agent answers, or its invocation raises and the
\* turn ends with the exception
CallKpiAgent ==
    /\ unit_calls.unit = "graph"
    /\ unit_calls.pc = "kpi_agent"
    /\ \E ok \in BOOLEAN :
           RunNode("kpi_agent",
                   IF ok THEN [messages |-> Append(unit_calls.messages, AIMessage)]
                   ELSE [f \in {} |-> NoneStr],
                   "END", ~ok)
    /\ OthersUnchanged

CallQueryAgent ==
    /\ unit_calls.unit = "graph"
    /\ unit_calls.pc = "query_agent"
    /\ \E ok \in BOOLEAN :
           RunNode("query_agent",
                   IF ok THEN [messages |-> Append(unit_calls.messages, AIMessage)]
                   ELSE [f \in {} |-> NoneStr],
                   "END", ~ok)
    /\ OthersUnchanged

NextGraph ==
    \/ RouteQueryNode
    \/ ValidateRouteNode
    \/ CallKpiAgent
    \/ CallQueryAgent

SpecGraph == InitGraph /\ [][NextGraph]_vars

\* the compiled graph runs the next node until END is reached
SpecGraphFair == SpecGraph /\ WF_vars(NextGraph)

(***************************************************************************)
(* Claims about CacheService.                                              *)
(***************************************************************************)

C8_KeyOrderInvariant ==
    key_calls.done =>
        LET same == /\ key_calls.cat_a = key_calls.cat_b
                    /\ PairSet(key_calls.kw_a) = PairSet(key_calls.kw_b)
        IN /\ same => key_calls.key_a = key_calls.key_b
           /\ ~same => key_calls.in_a # key_calls.in_b

\* two calls with the same two parameters in opposite orders
C8_Witness ==
    /\ key_calls.done
    /\ key_calls.cat_a = key_calls.cat_b
    /\ Len(key_calls.kw_a) = 2
    /\ key_calls.kw_a # key_calls.kw_b
    /\ PairSet(key_calls.kw_a) = PairSet(key_calls.kw_b)
    /\ key_calls.key_a = key_calls.key_b

\* C9: a hit on get adds one to hit_count, sets last_accessed to the time of
\* the read and leaves value, created_at and expires_at as they were.
C9_ReadKeepsExpiry ==
    (api_got.called /\ api_got.result.hit) =>
        /\ api_got.after # NoEntry
        /\ api_got.after.hit_count = api_got.before.hit_count + 1
        /\ api_got.after.last_accessed = api_got.at
        /\ api_got.after.value = api_got.before.value
        /\ api_got.after.created_at = api_got.before.created_at
        /\ api_got.after.expires_at = api_got.before.expires_at
        /\ api_got.after.cache_key = api_got.before.cache_key

\* an entry with a TTL is hit a second time, later than it was written
C9_Witness ==
    /\ api_got.called
    /\ api_got.result.hit
    /\ api_got.before.hit_count >= 1
    /\ api_got.before.expires_at # None
    /\ api_got.at > api_got.before.created_at
    /\ api_got.after.expires_at = api_got.before.expires_at

\* C10: when two set calls for one key have both finished, the table holds
\* exactly one row for the key and its value is the value of the call that
\* finished last.
C10_LastWriteWins ==
    (\A w \in SetWorkers : set_pc[w] = "done") =>
        LET rows == {e \in cache_entries : e.cache_key = RaceKey}
        IN /\ Cardinality(rows) = 1
           /\ \A e \in rows : e.value = set_value[set_finished[Len(set_finished)]]

(***************************************************************************)
(* Claims about execute_query_node and _execute_query_helper.              *)
(***************************************************************************)

\* C1: over a run of consecutive replay-from-buffer turns, rows_shown never
\* decreases and never exceeds len(all_rows), and the pages returned,
\* concatenated, are the slice of all_rows from the rows_shown before the
\* first turn of the run to the rows_shown after its last turn.
C1_PaginationRun ==
    pag_run.turns > 0 =>
        /\ pag_run.monotone
        /\ pag_run.start # None
        /\ previous_metadata.rows_shown # None
        /\ pag_run.start <= previous_metadata.rows_shown
        /\ previous_metadata.rows_shown <= Len(previous_metadata.all_rows)
        /\ pag_run.pages = SubSeq(previous_metadata.all_rows, pag_run.start + 1,
                                  previous_metadata.rows_shown)

\* C2: the stored result buffer always has an integer rows_shown with
\* 0 <= rows_shown <= len(all_rows).
C2_RowsShownInRange ==
    previous_metadata.present =>
        /\ previous_metadata.rows_shown # None
        /\ 0 <= previous_metadata.rows_shown
        /\ previous_metadata.rows_shown <= Len(previous_metadata.all_rows)

\* C3: after a turn that execute_query_node completes without error (the
\* backend, when called, having succeeded), the buffer's all_rows is the
\* complete row sequence of the recorded dataset for the recorded SQL (after a
\* replay turn: for the SQL the buffer was fetched with).
C3_BufferIsFetchedRows ==
    (/\ last_exec.pipeline = "node"
     /\ last_exec.completed
     /\ (last_exec.backend_called => last_exec.backend_ok)) =>
        \E s \in SqlTexts :
            /\ last_exec.path = "execute" => s = previous_sql
            /\ previous_metadata.all_rows = BackendRows(previous_metadata.dataset_id, s)

\* C4: a pagination request with rows in the buffer and the buffered dataset
\* selected returns all_rows[rows_shown : min(rows_shown + 10, len(all_rows))],
\* stores that end index as rows_shown, keeps all_rows and does not call the
\* backend (the inference service answering).
C4_ReplayPage ==
    (/\ last_exec.pipeline = "node"
     /\ last_exec.precond
     /\ ~last_exec.llm_failed) =>
        /\ last_exec.completed
        /\ last_exec.before_shown # None
        /\ LET len == Len(last_exec.before_rows)
               end_idx == IF last_exec.before_shown + PageSize < len
                          THEN last_exec.before_shown + PageSize ELSE len
           IN /\ last_exec.rows =
                     SubSeq(last_exec.before_rows, last_exec.before_shown + 1, end_idx)
              /\ last_exec.after_shown = end_idx
        /\ last_exec.after_rows = last_exec.before_rows
        /\ ~last_exec.backend_called

C7_FailureNotCached ==
    (last_exec.backend_called /\ ~last_exec.backend_ok) => ~last_exec.cache_written

(***************************************************************************)
(* Claims about the request handlers.                                      *)
(***************************************************************************)

Contains(history, m) == \E i \in 1..Len(history) : history[i] = m

\* C11: of two concurrent turns on one conversation that both stored their
\* messages, one read the history after the other had stored its user and
\* assistant message, and in the stored history the user message of such a
\* turn is directly followed by its assistant message.
C11_TurnsSerialized ==
    /\ \A r1, r2 \in Requests :
           (r1 # r2 /\ req_pc[r1] = "done" /\ req_pc[r2] = "done") =>
               \/ /\ Contains(req_history[r2], UserMessage(r1))
                  /\ Contains(req_history[r2], AssistantMessage(r1))
               \/ /\ Contains(req_history[r1], UserMessage(r2))
                  /\ Contains(req_history[r1], AssistantMessage(r2))
    /\ \A i \in 1..Len(messages) :
           (/\ messages[i].role = "user"
            /\ messages[i].turn \in Requests
            /\ req_pc[messages[i].turn] = "done") =>
               /\ i < Len(messages)
               /\ messages[i + 1] = AssistantMessage(messages[i].turn)

(***************************************************************************)
(* Claims about _sanitize_sql_column_names.                                *)
(***************************************************************************)

Listed(call) ==
    {call.column_names[i] : i \in 1..Len(call.column_names)}
    \cup (IF call.table_name # NoTable THEN {call.table_name} ELSE {})

\* C12: sanitizing twice gives the text of sanitizing once; and a SQL text
\* made of identifiers of listed names that are already quoted comes out with
\* each identifier in one layer of double quotes: the double-quoted ones as
\* they were, the backtick-quoted ones double-quoted.
C12_SanitizeIdempotent ==
    sanitize_calls.done =>
        /\ sanitize_calls.twice = sanitize_calls.once
        /\ (\A i \in 1..Len(sanitize_calls.pieces) :
                /\ sanitize_calls.pieces[i].style \in {"double", "backtick"}
                /\ sanitize_calls.pieces[i].name \in Listed(sanitize_calls))
               => sanitize_calls.once =
                      SqlText([i \in 1..Len(sanitize_calls.pieces) |->
                                  DoubleQuoted(sanitize_calls.pieces[i].name)])

(***************************************************************************)
(* Claims about SemanticRouter.route.                                      *)
(***************************************************************************)

HasReportKeyword(text) == Matches(KPI_KEYWORDS, text) # {}

HasQueryKeyword(text) ==
    Matches(QUERY_KEYWORDS, text) # {} \/ Matches(strong_query_indicators, text) # {}

\* C13: an utterance that contains both a report keyword and an ad-hoc query
\* keyword is routed to 'kpi', wherever the two keywords stand.
C13_ReportKeywordWins ==
    (/\ route_calls.done
     /\ HasReportKeyword(route_calls.query_lower)
     /\ HasQueryKeyword(route_calls.query_lower))
        => route_calls.result.route = "kpi"

\* the ad-hoc query keyword comes first in the utterance and the report
\* keyword after it
C13_Witness ==
    /\ route_calls.done
    /\ route_calls.words = <<"How", "MANY", "Underperforming">>
    /\ route_calls.result.route = "kpi"

\* C14: an utterance whose lowercased, trimmed text contains a report keyword
\* is routed to 'kpi' with confidence 0.95 and method 'keyword'; a decision
\* made by a keyword match makes no inference call, and the inference client
\* is called only when no keyword tier matches.
C14_KeywordRouting ==
    route_calls.done =>
        /\ HasReportKeyword(route_calls.query_lower) =>
               /\ route_calls.result.route = "kpi"
               /\ route_calls.result.confidence = 95
               /\ route_calls.result.method = "keyword"
        /\ route_calls.result.method = "keyword" => route_calls.result.llm_calls = 0
        /\ route_calls.result.llm_calls > 0 =>
               /\ ~HasReportKeyword(route_calls.query_lower)
               /\ Matches(strong_query_indicators, route_calls.query_lower) = {}

\* a padded, capitalised utterance with a report keyword, while the inference
\* backend is down
C14_Witness ==
    /\ route_calls.done
    /\ route_calls.padded
    /\ route_calls.words = <<"dallas", "KPI", "report">>
    /\ route_calls.response = LlmRaises
    /\ route_calls.result.method = "keyword"
    /\ route_calls.result.llm_calls = 0

(***************************************************************************)
(* Claims about _select_columns_with_llm.                                  *)
(***************************************************************************)

\* C15: for a non-empty column set, whatever the inference backend answers,
\* the selected_columns list that is returned is non-empty.
C15_SelectedColumnsNonEmpty ==
    (/\ select_calls.done
     /\ select_calls.all_columns # {}
     /\ ~select_calls.returned.raised)
        => select_calls.returned.selected_columns # <<>>

\* lowercase of the filter values and of the examples
LowerText ==
    [t \in {"lost", "Lost", "Sale", "Other", "Active"} |->
        CASE t = "Lost" -> "lost"
          [] t = "Sale" -> "sale"
          [] t = "Other" -> "other"
          [] t = "Active" -> "active"
          [] OTHER -> t]

\* case-insensitive partial match of a filter value with an example of a
\* column; on these one-word texts neither contains the other unless their
\* lowercase forms are equal
MatchesExample(value, example) == LowerText[value] = LowerText[example]

ColumnNamed(all_columns, name) == CHOOSE col \in all_columns : col.name = name

\* C16: no filter mapping that is returned binds a value to a column with a
\* non-empty list of examples none of which matches the value.
C16_MappingMatchesExamples ==
    (select_calls.done /\ ~select_calls.returned.raised) =>
        \A i \in 1..Len(select_calls.returned.filter_mappings) :
            LET mapping == select_calls.returned.filter_mappings[i]
                examples == ColumnNamed(select_calls.all_columns, mapping.column).examples
            IN examples # {} =>
                   \E example \in examples : MatchesExample(mapping.value, example)

(***************************************************************************)
(* Claims about pagination turns and the previous context.                 *)
(***************************************************************************)

\* C17: on a pagination request with no previous dataset and no previous
\* metadata, column discovery does not take the path that reuses the
\* previous dataset but searches the whole index, execution takes the normal
\* execution path, and the execution fails only for want of a dataset or a
\* SQL text or because the reply could not be written.
C17_PaginationWithoutContext ==
    [][(query_intent.is_pagination_request /\ ~previous_metadata.present) =>
           /\ (pc = "search" /\ pc' = "sql") =>
                  /\ ~ReusesPreviousDataset
                  /\ SearchHits = SUBSET indexed
                  /\ selected_dataset_id' \in indexed \cup {""}
           /\ (pc = "exec" /\ pc' = "idle") =>
                  /\ last_exec'.path = "execute"
                  /\ \/ last_exec'.completed
                     \/ selected_dataset_id = ""
                     \/ sql_query = ""
                     \/ last_exec'.llm_failed]_vars

\* a pagination request without previous context for which column discovery
\* has searched the whole index and selected a dataset, the SQL text is
\* written, and the execution stage is about to take the normal path
C17_Witness ==
    /\ pc = "exec"
    /\ query_intent.is_pagination_request
    /\ ~previous_metadata.present
    /\ previous_dataset_id = NoneStr
    /\ selected_dataset_id \in indexed
    /\ sql_query \in SqlTexts
    /\ ~IsReplay

\* C18: on a pagination request with previous metadata, the dataset that
\* column discovery selects is the previous dataset, also when the index
\* holds no column of it and the stage falls back to the similarity search.
C18_PaginationKeepsDataset ==
    (/\ pc = "sql"
     /\ query_intent.is_pagination_request
     /\ previous_metadata.present
     /\ selected_dataset_id # "")
        => selected_dataset_id = previous_dataset_id

(***************************************************************************)
(* Claims about analyze_query_intent_node.                                 *)
(***************************************************************************)

HasMoreCue(query) == Matches(more_patterns, Strip(Lower(query))) # {}

\* C20: for an utterance with a phrase of the 'show me more' family the
\* intent has is_pagination_request true and continuation_type pagination,
\* whatever the inference backend answers and also when its call fails.
C20_SurfaceCueDecidesPagination ==
    (intent_calls.done /\ HasMoreCue(intent_calls.query)) =>
        /\ IsPaginationRequest(intent_calls.returned.query_intent)
        /\ ContinuationType(intent_calls.returned.query_intent) = "pagination"

(***************************************************************************)
(* Claims about the SQL and the state carried from turn to turn.           *)
(***************************************************************************)

\* C21: on a pagination request that follows a turn with SQL, the SQL text
\* the turn records (sql_query, stored as previous_sql by the execution) is
\* the SQL text of the previous turn.
C21_PaginationReusesSql ==
    (/\ pc = "exec"
     /\ query_intent.is_pagination_request
     /\ previous_sql \in SqlTexts
     /\ sql_query # "")
        => sql_query = previous_sql

\* C22: when the execution backend reports a failure for the SQL of the
\* turn, the turn ends in an error, the backend was called once, and
\* previous_sql and the buffer (all_rows, rows_shown) are after the turn what
\* they were before it.
C22_BackendFailureKeepsState ==
    [][(/\ pc = "exec"
        /\ pc' = "idle"
        /\ last_exec'.backend_called
        /\ ~last_exec'.backend_ok)
           => /\ ~last_exec'.completed
              /\ domo_calls' = domo_calls + 1
              /\ previous_sql' = previous_sql
              /\ previous_metadata'.all_rows = previous_metadata.all_rows
              /\ previous_metadata'.rows_shown = previous_metadata.rows_shown]_vars

(***************************************************************************)
(* Claims about _summarize_conversation_if_needed.                         *)
(***************************************************************************)

\* C23: with at most 10 messages the messages and the summary come back as
\* they are and no inference call is made; with more than 10, one inference
\* call is made and the result is the new summary message followed by the
\* last 10 messages in their order; if that call fails the messages and the
\* summary come back as they are.
C23_SummarizeAboveThreshold ==
    (unit_calls.done /\ unit_calls.unit = "summarize") =>
        LET msgs == unit_calls.messages
            n == Len(msgs)
            out == unit_calls.returned
        IN /\ n <= 10 =>
                  /\ out.messages = msgs
                  /\ out.summary = unit_calls.existing_summary
                  /\ out.llm_calls = 0
           /\ (n > 10 /\ unit_calls.llm_ok) =>
                  /\ out.llm_calls = 1
                  /\ Len(out.messages) = 11
                  /\ out.messages[1].kind = "system"
                  /\ out.messages[1].content = out.summary
                  /\ out.summary # unit_calls.existing_summary
                  /\ \A i \in 1..10 : out.messages[i + 1] = msgs[n - 10 + i]
           /\ (n > 10 /\ ~unit_calls.llm_ok) =>
                  /\ out.llm_calls = 1
                  /\ out.messages = msgs
                  /\ out.summary = unit_calls.existing_summary

\* a history of 12 messages was summarized: two messages went into the
\* summary and ten were kept
C23_Witness ==
    /\ unit_calls.done
    /\ unit_calls.unit = "summarize"
    /\ Len(unit_calls.messages) = 12
    /\ unit_calls.llm_ok
    /\ unit_calls.returned.summary[2] = 2
    /\ Len(unit_calls.returned.messages) = 11

(***************************************************************************)
(* Claims about the SQL text of a turn.                                    *)
(***************************************************************************)

HasLimit(sql) == \E i \in 1..Len(sql) : sql[i] = "LIMIT"

\* C24: the SQL text of a turn has no LIMIT clause, also when the utterance
\* asks for a number of items, in the node pipeline and in the tool pipeline.
C24_NoLimitClause ==
    (unit_calls.done /\ unit_calls.unit = "sql") => ~HasLimit(unit_calls.sql_query)

\* C25: the merge of the metric, dimension and temporal facet searches keeps,
\* for every column id returned by any facet, exactly one entry, and its score
\* is the maximum of that id's scores over the facets; no hit id is lost; the
\* result is sorted by score descending; and the set of (id, score) pairs is
\* the same for every order in which the facet results are merged.
FacetResults ==
    <<unit_calls.metrics_results, unit_calls.dimensions_results,
      unit_calls.temporal_results>>

FacetHits ==
    UNION {{FacetResults[f][i] : i \in 1..Len(FacetResults[f])} : f \in 1..3}

Pairs(results) == {<<results[i].id, results[i].score>> : i \in 1..Len(results)}

FacetOrders ==
    {o \in [1..3 -> 1..3] : \A i, j \in 1..3 : i # j => o[i] # o[j]}

C25_MergeKeepsMaximum ==
    (unit_calls.unit = "merge" /\ unit_calls.done /\ FacetHits # {}) =>
        LET returned == unit_calls.returned IN
        /\ \A h \in FacetHits :
               \E i \in 1..Len(returned) :
                   /\ returned[i].id = h.id
                   /\ returned[i].score >= h.score
                   /\ \A j \in 1..Len(returned) :
                          returned[j].id = h.id => j = i
        /\ \A i \in 1..Len(returned) :
               \E h \in FacetHits :
                   h.id = returned[i].id /\ h.score = returned[i].score
        /\ \A i \in 1..Len(returned) - 1 :
               returned[i].score >= returned[i + 1].score
        /\ \A o \in FacetOrders :
               Pairs(MergeFacets(<<>>, [i \in 1..3 |-> FacetResults[o[i]]]))
                   = Pairs(returned)

C25_Witness ==
    /\ unit_calls.unit = "merge"
    /\ unit_calls.done
    /\ Len(unit_calls.returned) = 2
    /\ \E h \in FacetHits :
           /\ h.via = "metrics"
           /\ \E g \in FacetHits :
                  g.via = "dimensions" /\ g.id = h.id /\ g.score > h.score
    /\ \E h \in FacetHits : h.via = "temporal"

\* C26: on a non-pagination turn the selected dataset has the maximal
\* aggregate score (sum of the scores of its hits) among the datasets with
\* hits, and has the largest hit count among the datasets of that aggregate
\* score, in the node pipeline and in the tool pipeline.
C26_BestDatasetSelected ==
    (/\ unit_calls.unit = "rank"
     /\ unit_calls.done
     /\ ~unit_calls.is_pagination_request
     /\ ~unit_calls.returned.error) =>
        LET groups == unit_calls.returned.dataset_groups IN
        \E i \in 1..Len(groups) :
            /\ groups[i].dataset_id = unit_calls.returned.selected_dataset_id
            /\ \A j \in 1..Len(groups) :
                   /\ Sum(groups[j].columns) <= Sum(groups[i].columns)
                   /\ Sum(groups[j].columns) = Sum(groups[i].columns) =>
                          Len(groups[j].columns) <= Len(groups[i].columns)

\* C27: in every stage of the node pipeline and of the tool pipeline, when
\* the call of a collaborator (inference, index search, cache, execution
\* backend) fails, no exception escapes the stage and the step log gets an
\* entry of status 'error'.
C27_FailuresBecomeErrors ==
    (/\ unit_calls.unit = "stage"
     /\ unit_calls.done
     /\ unit_calls.returned.failed # {}) =>
        /\ ~unit_calls.returned.escaped
        /\ unit_calls.returned.step_status = "error"

\* C28: an utterance that contains no report keyword and contains an entry of
\* the router's QUERY_KEYWORDS list is routed to 'query' with confidence 0.90
\* and method 'keyword', without an inference call.
C28_QueryKeywordRouting ==
    (/\ route_calls.done
     /\ ~HasReportKeyword(route_calls.query_lower)
     /\ Matches(QUERY_KEYWORDS, route_calls.query_lower) # {})
        => /\ route_calls.result.route = "query"
           /\ route_calls.result.confidence = 90
           /\ route_calls.result.method = "keyword"
           /\ route_calls.result.llm_calls = 0

(***************************************************************************)
(* Claims about the routed agent graph.                                    *)
(***************************************************************************)

\* the sub-agent node named by the route of the last human message of the
\* turn ('query' when there is none)
NamedAgent ==
    LET last == LastHuman(SubSeq(unit_calls.messages, 1,
                                 Len(unit_calls.messages)
                                     - (IF unit_calls.done /\ ~unit_calls.raised
                                        THEN 1 ELSE 0)))
    IN  IF last.type # "human" THEN "query_agent"
        ELSE RouteEdges[route(last.content, unit_calls.response).route]

TurnOrder ==
    /\ unit_calls.ran \in
           {<<>>, <<"route">>, <<"route", "validate">>,
            <<"route", "validate", "kpi_agent">>,
            <<"route", "validate", "query_agent">>}
    /\ Len(unit_calls.ran) = 3 => unit_calls.ran[3] = NamedAgent
    /\ unit_calls.done <=> Len(unit_calls.ran) = 3

ValidateKeepsState ==
    (unit_calls.pc = "validate" /\ unit_calls'.pc # "validate") =>
        GraphState(unit_calls') = GraphState(unit_calls)

C30_WholeResultCountsAsShown ==
    [][(pc = "exec" /\ pc' = "idle" /\ last_exec'.completed) =>
         /\ ~query_intent.is_pagination_request =>
                previous_metadata'.rows_shown = Len(previous_metadata'.all_rows)
         /\ (/\ query_intent.is_pagination_request
             /\ previous_metadata.present
             /\ previous_metadata.rows_shown = Len(previous_metadata.all_rows)
             /\ pag_run.turns = 0
             /\ selected_dataset_id = previous_dataset_id) =>
                /\ last_exec'.path = "replay"
                /\ last_exec'.rows = <<>>
                /\ previous_metadata'.rows_shown = previous_metadata.rows_shown]_vars

====
